---- MODULE Spec2Model ----
(***************************************************************************)
(* State-machine model of the sound engine: Envelope, SimpleSynthesizer,   *)
(* Sequencer, MultiTrackSequencer and BGMManager.                          *)
(*                                                                         *)
(* Units.  Time is counted in integer clock units (SDL_GetTicks() values); *)
(* note durations, fade durations and sequence_time_ are in the same unit, *)
(* so "(current_time - last_update_time_) / 1000.0f" is the plain          *)
(* difference.  Volumes are integers in 0..VolOne (VolOne = 1.0f).         *)
(***************************************************************************)
EXTENDS Integers, Sequences, FiniteSets, TLC

VARIABLES
    now,        \* SDL_GetTicks()
    trk,        \* one Sequencer with the SimpleSynthesizer it drives
    pc,         \* position of the timer thread inside timerCallback
    gen,        \* position of the audio thread inside generateSamples
    hist,       \* history of the sequencer run (observation only)
    mgr,        \* BGMManager fields
    bgm_map_,   \* BGMManager::bgm_map_ : id -> MultiTrackSequencer
    mix,        \* position of the audio thread inside BGMManager::mixSamples
    upd,        \* position of the foreground inside BGMManager::update
    mhist,      \* history of the manager run (observation only)
    synth,      \* one SimpleSynthesizer used directly, with its Envelope
    vhist,      \* history of the calls made to synth (observation only)
    mml,        \* the text given to MMLParser::parse
    parser,     \* the local variables of MMLParser::parse
    fx,         \* SimpleSynthesizer::effects_ of synth
    ctl,        \* a BiquadFilter, a VolumeModulation and an AudioMixer of their own
    osc,        \* two Oscillators and the values they last generated
    fns         \* a FixedNoteSequence built and filled by hand

vars == <<now, trk, pc, gen, hist, mgr, bgm_map_, mix, upd, mhist,
          synth, vhist, mml, parser, fx, ctl, osc, fns>>

----------------------------------------------------------------------------
(* Bounds *)
MaxTime == 7          \* the clock stops advancing here
MaxDelta == 2         \* largest clock advance between two callbacks
MaxLoopCount == 1     \* largest finite loop count passed to setLoop
BufLen == 2           \* samples per generateSamples call
MaxSample == 3        \* cap of the sample counter
MgrMaxTime == 3       \* the clock stops advancing here when the manager runs
MaxCalls == 3         \* number of foreground calls made to the manager
MaxBuffers == 1       \* buffers the audio callback mixes
MaxProc == 4          \* cap of the count of process() calls since noteOn
MaxTextLen == 3       \* longest text given to the parser, the two examples apart
MixMaxTime == 2       \* the clock stops advancing here when the mixer runs too
MaxEffects == 2       \* longest effect chain given to the voice
MaxControls == 2      \* number of calls made to the setters and index getters
MaxNoise == 2
MaxBufOps == 4         \* values generated by an oscillator after it was seeded

(* Program constants *)
VolOne == 8           \* 1.0f on the volume scale
LevelOne == 4         \* 1.0f on the envelope level scale

Min(a, b) == IF a < b THEN a ELSE b
SDL_clamp(x, lo, hi) == IF x < lo THEN lo ELSE IF x > hi THEN hi ELSE x

----------------------------------------------------------------------------
(* NoteData and the sequences fed to setSequence *)
Nt(d, f) == [duration |-> d, is_rest |-> FALSE, freq |-> f, volume |-> VolOne]
Rs(d)    == [duration |-> d, is_rest |-> TRUE,  freq |-> 0, volume |-> VolOne]

Sequences == { <<>>, <<Nt(2, 1)>>, <<Nt(1, 1), Nt(1, 2)>>, <<Rs(1), Nt(3, 2)>> }

RECURSIVE SumDur(_)
SumDur(s) == IF s = <<>> THEN 0 ELSE Head(s).duration + SumDur(Tail(s))

----------------------------------------------------------------------------
(* Envelope.  Times are in units of which one sample period dt = 1 /      *)
(* sample_rate is SamplePeriod; levels are multiples of 1 / LevelOne, and   *)
(* every float operation rounds its exact result to the nearest multiple,   *)
(* ties to even, as IEEE-754 does.                                          *)
SamplePeriod == 2
DEFAULT_ATTACK_TIME == 4
DEFAULT_DECAY_TIME == 4
DEFAULT_SUSTAIN_LEVEL == 2
DEFAULT_RELEASE_TIME == 4

\* n / d for d > 0, rounded to nearest, ties to even
RoundDiv(n, d) ==
    LET q == n \div d
        r == n % d
    IN IF 2 * r < d THEN q
       ELSE IF 2 * r > d THEN q + 1
       ELSE IF q % 2 = 0 THEN q ELSE q + 1

NewEnvelope ==
    [attack_time_ |-> DEFAULT_ATTACK_TIME, decay_time_ |-> DEFAULT_DECAY_TIME,
     sustain_level_ |-> DEFAULT_SUSTAIN_LEVEL, release_time_ |-> DEFAULT_RELEASE_TIME,
     state_ |-> "Idle", current_level_ |-> 0, release_level_ |-> 0]

setAttackTime(e, time) == [e EXCEPT !.attack_time_ = time]

setDecayTime(e, time) == [e EXCEPT !.decay_time_ = time]

\* setSustainLevel storing the level as given
setSustainLevel_unclamped(e, level) == [e EXCEPT !.sustain_level_ = level]

setSustainLevel(e, level) == [e EXCEPT !.sustain_level_ = SDL_clamp(level, 0, LevelOne)]

setReleaseTime(e, time) == [e EXCEPT !.release_time_ = time]

setADSR(e, attack_time, decay_time, sustain_level, release_time) ==
    [e EXCEPT !.attack_time_ = attack_time,
              !.decay_time_ = decay_time,
              !.sustain_level_ = SDL_clamp(sustain_level, 0, LevelOne),
              !.release_time_ = release_time]

\* noteOn starting the envelope at its peak, in Decay
Envelope_noteOn_atPeak(e) == [e EXCEPT !.state_ = "Decay", !.current_level_ = LevelOne]

Envelope_noteOn(e) == [e EXCEPT !.state_ = "Attack", !.current_level_ = 0]

Envelope_noteOff(e) ==
    IF e.state_ # "Idle"
    THEN [e EXCEPT !.state_ = "Release", !.release_level_ = e.current_level_]
    ELSE e

Envelope_process(e) ==
    CASE e.state_ = "Idle" -> e
      [] e.state_ = "Attack" ->
            IF e.attack_time_ > 0
            THEN LET l == e.current_level_
                          + RoundDiv(SamplePeriod * LevelOne, e.attack_time_)
                 IN IF l >= LevelOne
                    THEN [e EXCEPT !.current_level_ = LevelOne, !.state_ = "Decay"]
                    ELSE [e EXCEPT !.current_level_ = l]
            ELSE [e EXCEPT !.current_level_ = LevelOne, !.state_ = "Decay"]
      [] e.state_ = "Decay" ->
            IF e.decay_time_ > 0
            THEN LET l == e.current_level_
                          - RoundDiv(SamplePeriod * (LevelOne - e.sustain_level_),
                                     e.decay_time_)
                 IN IF l <= e.sustain_level_
                    THEN [e EXCEPT !.current_level_ = e.sustain_level_,
                                   !.state_ = "Sustain"]
                    ELSE [e EXCEPT !.current_level_ = l]
            ELSE [e EXCEPT !.current_level_ = e.sustain_level_, !.state_ = "Sustain"]
      [] e.state_ = "Sustain" -> e
      [] e.state_ = "Release" ->
            IF e.release_time_ > 0
            THEN LET l == RoundDiv(e.release_level_ * (e.release_time_ - SamplePeriod),
                                   e.release_time_)
                 IN IF l <= 0
                    THEN [e EXCEPT !.current_level_ = 0, !.release_level_ = l,
                                   !.state_ = "Idle"]
                    ELSE [e EXCEPT !.current_level_ = l, !.release_level_ = l]
            ELSE [e EXCEPT !.current_level_ = 0, !.state_ = "Idle"]

\* the value process() returns when called in state e
Envelope_value(e) ==
    CASE e.state_ = "Idle" -> 0
      [] e.state_ = "Sustain" -> e.sustain_level_
      [] OTHER -> Envelope_process(e).current_level_

----------------------------------------------------------------------------
(* SimpleSynthesizer *)
NewSynth ==
    [stream_ |-> TRUE, gate_ |-> FALSE, is_playing_ |-> FALSE,
     current_sample_ |-> 0, note_duration_ |-> 0, note_volume_ |-> VolOne,
     master_volume_ |-> VolOne, frequency |-> 0, envelope_ |-> NewEnvelope]

\* a voice taken to have its stream whether or not the device was opened
hasStream_always(sy) == TRUE

\* the test of noteOn on the stream the constructor opened, or failed to open
hasStream(sy) == sy.stream_

\* noteOn leaving the sample counter where it is
noteOn_keepsCounter(sy, frequency, duration, volume) ==
    IF ~hasStream(sy) THEN sy
    ELSE [sy EXCEPT !.frequency = frequency,
                    !.note_duration_ = duration,
                    !.note_volume_ = SDL_clamp(volume, 0, VolOne),
                    !.gate_ = TRUE,
                    !.is_playing_ = TRUE,
                    !.envelope_ = Envelope_noteOn(sy.envelope_)]

noteOn(sy, frequency, duration, volume) ==
    IF ~hasStream(sy) THEN sy
    ELSE [sy EXCEPT !.frequency = frequency,
                    !.current_sample_ = 0,
                    !.note_duration_ = duration,
                    !.note_volume_ = SDL_clamp(volume, 0, VolOne),
                    !.gate_ = TRUE,
                    !.is_playing_ = TRUE,
                    !.envelope_ = Envelope_noteOn(sy.envelope_)]

noteOff(sy) ==
    IF sy.gate_
    THEN [sy EXCEPT !.gate_ = FALSE, !.envelope_ = Envelope_noteOff(sy.envelope_)]
    ELSE sy

Synth_setVolume(sy, v) == [sy EXCEPT !.master_volume_ = SDL_clamp(v, 0, VolOne)]

\* one iteration of the loop of generateSamples
generateSample(sy) ==
    [sy EXCEPT !.envelope_ = Envelope_process(sy.envelope_),
               !.current_sample_ = Min(sy.current_sample_ + 1, MaxSample)]

----------------------------------------------------------------------------
(* Sequencer; a track record holds the Sequencer fields and, in synthesizer_, *)
(* the voice it drives.  sdl_timers is the number of SDL timers armed for it. *)
NewTrack ==
    [sequence_ |-> <<>>, current_note_index_ |-> 0, is_playing_ |-> FALSE,
     sequence_time_ |-> 0, last_update_time_ |-> 0, loop_enabled_ |-> FALSE,
     loop_count_ |-> -1, current_loop_ |-> 0, timer_id_ |-> 0, volume_ |-> VolOne,
     sdl_timers |-> 0, synthesizer_ |-> NewSynth]

\* current_note_index_ is 0-based as in the source
NoteAt(t) == t.sequence_[t.current_note_index_ + 1]

setLoop(t, enabled, count) == [t EXCEPT !.loop_enabled_ = enabled, !.loop_count_ = count]

clear(t) == [t EXCEPT !.sequence_ = <<>>, !.current_note_index_ = 0, !.sequence_time_ = 0]

setSequence(t, notes) == [t EXCEPT !.sequence_ = notes]

\* stopTimer without its timer_id_ check: removes a timer every time
stopTimer_unguarded(t) == [t EXCEPT !.sdl_timers = t.sdl_timers - 1, !.timer_id_ = 0]

stopTimer(t) ==
    IF t.timer_id_ # 0
    THEN [t EXCEPT !.sdl_timers = t.sdl_timers - 1, !.timer_id_ = 0]
    ELSE t

startTimer(t) ==
    LET u == stopTimer(t) IN
    [u EXCEPT !.sdl_timers = u.sdl_timers + 1, !.timer_id_ = 1]

playCurrentNote(t) ==
    IF t.current_note_index_ >= Len(t.sequence_) THEN t
    ELSE LET n == NoteAt(t) IN
         IF n.is_rest
         THEN [t EXCEPT !.synthesizer_ = noteOff(t.synthesizer_)]
         ELSE [t EXCEPT !.synthesizer_ =
                   noteOn(t.synthesizer_, n.freq, n.duration,
                          (t.volume_ * n.volume) \div VolOne)]

\* play() leaving the loop counter where the last run left it
Sequencer_play_keepsLoop(t, clock) ==
    IF t.sequence_ = <<>> THEN t
    ELSE startTimer(playCurrentNote(
            [t EXCEPT !.current_note_index_ = 0,
                      !.sequence_time_ = 0,
                      !.is_playing_ = TRUE,
                      !.last_update_time_ = clock]))

Sequencer_play(t, clock) ==
    IF t.sequence_ = <<>> THEN t
    ELSE startTimer(playCurrentNote(
            [t EXCEPT !.current_note_index_ = 0,
                      !.sequence_time_ = 0,
                      !.current_loop_ = 0,
                      !.is_playing_ = TRUE,
                      !.last_update_time_ = clock]))

\* the per-frame update(): an empty body
Sequencer_update(t) == t

Sequencer_stop(t) ==
    stopTimer([t EXCEPT !.is_playing_ = FALSE,
                        !.synthesizer_ = noteOff(t.synthesizer_)])

\* handleSequenceEnd stopping one traversal early (>= for >)
handleSequenceEnd_offByOne(t) ==
    IF ~t.loop_enabled_ THEN [t EXCEPT !.is_playing_ = FALSE]
    ELSE LET u == IF t.loop_count_ >= 0
                  THEN [t EXCEPT !.current_loop_ = t.current_loop_ + 1]
                  ELSE t
         IN IF t.loop_count_ >= 0 /\ u.current_loop_ >= u.loop_count_
            THEN [u EXCEPT !.is_playing_ = FALSE]
            ELSE playCurrentNote([u EXCEPT !.current_note_index_ = 0,
                                           !.sequence_time_ = 0])

handleSequenceEnd(t) ==
    IF ~t.loop_enabled_ THEN [t EXCEPT !.is_playing_ = FALSE]
    ELSE LET u == IF t.loop_count_ >= 0
                  THEN [t EXCEPT !.current_loop_ = t.current_loop_ + 1]
                  ELSE t
         IN IF t.loop_count_ >= 0 /\ u.current_loop_ > u.loop_count_
            THEN [u EXCEPT !.is_playing_ = FALSE]
            ELSE playCurrentNote([u EXCEPT !.current_note_index_ = 0,
                                           !.sequence_time_ = 0])

\* lines 135-156 of internalUpdate: everything after the is_playing_ check
internalUpdateBody(t, clock) ==
    LET delta_time == clock - t.last_update_time_
        u == [t EXCEPT !.last_update_time_ = clock,
                       !.sequence_time_ = t.sequence_time_ + delta_time]
    IN IF u.current_note_index_ < Len(u.sequence_)
          /\ u.sequence_time_ >= NoteAt(u).duration
       THEN LET w == [u EXCEPT !.sequence_time_ = u.sequence_time_ - NoteAt(u).duration,
                               !.current_note_index_ = u.current_note_index_ + 1]
            IN IF w.current_note_index_ < Len(w.sequence_)
               THEN playCurrentNote(w)
               ELSE handleSequenceEnd(w)
       ELSE u

internalUpdateGuard(t) == t.is_playing_ /\ t.sequence_ # <<>>

internalUpdate(t, clock) ==
    IF ~internalUpdateGuard(t) THEN t ELSE internalUpdateBody(t, clock)

----------------------------------------------------------------------------
(* History of one sequencer run, rebuilt at every play():                   *)
(*   play_time   clock value read by the last play()                        *)
(*   finished    sum of the durations of the notes finished since then      *)
(*   traversals  number of times the end of the note list was reached       *)
(*   dirty       setLoop / setSequence / clear was called since then        *)
(*   ended       the sequence stopped by itself (handleSequenceEnd)         *)
(*   stopped     stop() has returned and play() was not called since        *)
NewHist ==
    [started |-> FALSE, play_time |-> 0, finished |-> 0, traversals |-> 0,
     dirty |-> FALSE, ended |-> FALSE, stopped |-> FALSE]

HistAfterPlay(t, h) ==
    IF t.sequence_ = <<>> THEN h
    ELSE [started |-> TRUE, play_time |-> now, finished |-> 0, traversals |-> 0,
          dirty |-> FALSE, ended |-> FALSE, stopped |-> FALSE]

\* the note at current_note_index_ ends in a callback that reads clock value c
Advances(t, c) ==
    /\ t.current_note_index_ < Len(t.sequence_)
    /\ t.sequence_time_ + (c - t.last_update_time_) >= NoteAt(t).duration

HistAfterUpdate(t, c, h, u) ==
    IF Advances(t, c)
    THEN [h EXCEPT !.finished = h.finished + NoteAt(t).duration,
                   !.traversals = IF t.current_note_index_ + 1 = Len(t.sequence_)
                                  THEN h.traversals + 1 ELSE h.traversals,
                   !.ended = h.ended \/ (t.is_playing_ /\ ~u.is_playing_)]
    ELSE h

\* positions of the audio thread in generateSamples and in mixSamples, and of
\* the foreground in BGMManager::update
NewGen == [active |-> FALSE, i |-> 0, snap |-> NewSynth]
NewMix == [pc |-> "idle", summed |-> <<>>, cur |-> "", n |-> 0]
NewUpd == [pc |-> "idle", delta_time |-> 0]

NoVoice == UNCHANGED <<synth, vhist>>

NoParser == UNCHANGED <<mml, parser>>

NoDevices == UNCHANGED <<fx, ctl, osc, fns>>

ManagerUnchanged == UNCHANGED <<mgr, bgm_map_, mix, upd, mhist>>

NoManager == ManagerUnchanged /\ NoVoice /\ NoParser /\ NoDevices

----------------------------------------------------------------------------
(* The sequencer alone: foreground calls and timer callbacks, each run to    *)
(* completion.                                                               *)
LoopConfigs == {<<FALSE, -1>>, <<TRUE, -1>>} \cup {<<TRUE, n>> : n \in 0..MaxLoopCount}

Play ==
    /\ trk' = Sequencer_play(trk, now)
    /\ hist' = HistAfterPlay(trk, hist)
    /\ UNCHANGED <<now, pc, gen>> /\ NoManager

Stop ==
    /\ trk' = Sequencer_stop(trk)
    /\ hist' = [hist EXCEPT !.stopped = TRUE]
    /\ UNCHANGED <<now, pc, gen>> /\ NoManager

SetLoop ==
    \E c \in LoopConfigs :
        /\ trk' = setLoop(trk, c[1], c[2])
        /\ hist' = [hist EXCEPT !.dirty = TRUE]
        /\ UNCHANGED <<now, pc, gen>> /\ NoManager

SetSequence ==
    \E s \in Sequences :
        /\ trk' = setSequence(trk, s)
        /\ hist' = [hist EXCEPT !.dirty = TRUE]
        /\ UNCHANGED <<now, pc, gen>> /\ NoManager

Clear ==
    /\ trk' = clear(trk)
    /\ hist' = [hist EXCEPT !.dirty = TRUE]
    /\ UNCHANGED <<now, pc, gen>> /\ NoManager

\* timerCallback of the armed timer, d clock units after the previous event
Tick ==
    \E d \in 1..MaxDelta :
        /\ trk.sdl_timers > 0
        /\ now + d <= MaxTime
        /\ now' = now + d
        /\ trk' = internalUpdate(trk, now')
        /\ hist' = IF internalUpdateGuard(trk)
                   THEN HistAfterUpdate(trk, now', hist, trk') ELSE hist
        /\ UNCHANGED <<pc, gen>> /\ NoManager

\* the per-frame call of the foreground loop
Update ==
    /\ trk' = Sequencer_update(trk)
    /\ UNCHANGED <<now, pc, gen, hist>> /\ NoManager

SeqNext == Play \/ Stop \/ SetLoop \/ SetSequence \/ Clear \/ Tick \/ Update

----------------------------------------------------------------------------
(* SimpleSynthesizer::update, the per-frame housekeeping call *)
SamplesPerUnit == 1   \* sample_rate_, in samples per clock unit

getCurrentTime(sy) == sy.current_sample_ \div SamplesPerUnit

\* update() releasing a note whatever its duration
Synth_update_anyDuration(sy) ==
    IF ~sy.is_playing_ THEN sy
    ELSE LET a == IF sy.gate_ /\ getCurrentTime(sy) >= sy.note_duration_
                  THEN noteOff(sy) ELSE sy
         IN IF ~a.gate_ /\ a.envelope_.state_ = "Idle"
            THEN [a EXCEPT !.is_playing_ = FALSE]
            ELSE a

Synth_update(sy) ==
    IF ~sy.is_playing_ THEN sy
    ELSE LET a == IF sy.gate_ /\ sy.note_duration_ > 0
                     /\ getCurrentTime(sy) >= sy.note_duration_
                  THEN noteOff(sy) ELSE sy
         IN IF ~a.gate_ /\ a.envelope_.state_ = "Idle"
            THEN [a EXCEPT !.is_playing_ = FALSE]
            ELSE a

----------------------------------------------------------------------------
(* MultiTrackSequencer: tracks is the list of (Sequencer, SimpleSynthesizer) *)
(* pairs, master_volume_ is also the volume of its mixer.                    *)
TrackCount == 1

NewSong(notes, loop) ==
    [master_volume_ |-> VolOne, is_paused_ |-> FALSE,
     tracks |-> [i \in 1..TrackCount |->
                    setLoop(setSequence(clear(NewTrack), notes), loop[1], loop[2])]]

EachTrack(s, F(_)) == [s EXCEPT !.tracks = [i \in DOMAIN s.tracks |-> F(s.tracks[i])]]

MTS_setMasterVolume(s, v) == [s EXCEPT !.master_volume_ = SDL_clamp(v, 0, VolOne)]

MTS_play(s, clock) ==
    LET P(t) == Sequencer_play(t, clock)
    IN EachTrack([s EXCEPT !.is_paused_ = FALSE], P)

MTS_stop(s) == EachTrack([s EXCEPT !.is_paused_ = FALSE], Sequencer_stop)

MTS_pause(s) ==
    IF ~s.is_paused_
    THEN EachTrack([s EXCEPT !.is_paused_ = TRUE], Sequencer_stop)
    ELSE s

\* resume() that leaves the tracks as pause() left them
MTS_resume_noRestart(s, clock) ==
    IF s.is_paused_ THEN [s EXCEPT !.is_paused_ = FALSE] ELSE s

MTS_resume(s, clock) ==
    LET P(t) == Sequencer_play(t, clock)
    IN IF s.is_paused_
       THEN EachTrack([s EXCEPT !.is_paused_ = FALSE], P)
       ELSE s

MTS_isPlaying(s) == \E i \in DOMAIN s.tracks : s.tracks[i].is_playing_

MTS_update(s) ==
    LET U(t) == [t EXCEPT !.synthesizer_ = Synth_update(t.synthesizer_)]
    IN EachTrack(s, U)

----------------------------------------------------------------------------
(* BGMManager.  A FadeState's bgm pointer is the id of the song it points   *)
(* to, NullBgm for nullptr.  Operations take the manager fields m and the   *)
(* song map b and return both, as [m |-> ..., b |-> ...].                   *)
NullBgm == "null"
NoId == ""

NewFadeState ==
    [bgm |-> NullBgm, bgm_id |-> NoId, current_volume |-> 0, target_volume |-> 0,
     fade_duration |-> 0, elapsed_time |-> 0, is_fading |-> FALSE]

NewManager ==
    [current_bgm_id_ |-> NoId, master_volume_ |-> VolOne,
     fade_in_ |-> NewFadeState, fade_out_ |-> NewFadeState,
     last_update_time_ |-> 0]

MB(m, b) == [m |-> m, b |-> b]

getBGM(b, id) == IF id \in DOMAIN b THEN id ELSE NullBgm

\* lines 209-215 / 218-221 / 222-225 of stop()
stopCurrent(x) ==
    IF x.m.current_bgm_id_ # NoId
    THEN LET p == getBGM(x.b, x.m.current_bgm_id_) IN
         MB([x.m EXCEPT !.current_bgm_id_ = NoId],
            IF p # NullBgm THEN [x.b EXCEPT ![p] = MTS_stop(x.b[p])] ELSE x.b)
    ELSE x

stopFadeIn(x) ==
    IF x.m.fade_in_.is_fading /\ x.m.fade_in_.bgm # NullBgm
    THEN MB([x.m EXCEPT !.fade_in_.is_fading = FALSE],
            [x.b EXCEPT ![x.m.fade_in_.bgm] = MTS_stop(x.b[x.m.fade_in_.bgm])])
    ELSE x

stopFadeOut(x) ==
    IF x.m.fade_out_.is_fading /\ x.m.fade_out_.bgm # NullBgm
    THEN MB([x.m EXCEPT !.fade_out_.is_fading = FALSE],
            [x.b EXCEPT ![x.m.fade_out_.bgm] = MTS_stop(x.b[x.m.fade_out_.bgm])])
    ELSE x

BGM_stop(x) == stopFadeOut(stopFadeIn(stopCurrent(x)))

\* play() stopping the current song before it looks the id up
BGM_play_stopsFirst(x, id, clock) ==
    LET y == IF x.m.current_bgm_id_ # NoId /\ x.m.current_bgm_id_ # id
             THEN BGM_stop(x) ELSE x
    IN IF getBGM(y.b, id) = NullBgm THEN y
       ELSE MB([y.m EXCEPT !.current_bgm_id_ = id,
                           !.fade_in_.is_fading = FALSE,
                           !.fade_out_.is_fading = FALSE],
               [y.b EXCEPT ![id] =
                   MTS_play(MTS_setMasterVolume(y.b[id], y.m.master_volume_), clock)])

BGM_play(x, id, clock) ==
    IF getBGM(x.b, id) = NullBgm THEN x
    ELSE LET y == IF x.m.current_bgm_id_ # NoId /\ x.m.current_bgm_id_ # id
                  THEN BGM_stop(x) ELSE x
         IN MB([y.m EXCEPT !.current_bgm_id_ = id,
                           !.fade_in_.is_fading = FALSE,
                           !.fade_out_.is_fading = FALSE],
               [y.b EXCEPT ![id] =
                   MTS_play(MTS_setMasterVolume(y.b[id], y.m.master_volume_), clock)])

BGM_play_ret(x, id) == getBGM(x.b, id) # NullBgm

\* lines 176-188: arm the fade-out of the current song
armFadeOut(x, fade_duration) ==
    IF x.m.current_bgm_id_ # NoId /\ getBGM(x.b, x.m.current_bgm_id_) # NullBgm
    THEN MB([x.m EXCEPT !.fade_out_ =
                [bgm |-> x.m.current_bgm_id_, bgm_id |-> x.m.current_bgm_id_,
                 current_volume |-> x.m.master_volume_, target_volume |-> 0,
                 fade_duration |-> fade_duration, elapsed_time |-> 0,
                 is_fading |-> TRUE]],
            x.b)
    ELSE x

\* lines 190-203: arm the fade-in of the new song and start it silently
armFadeIn(x, id, fade_duration, clock) ==
    MB([x.m EXCEPT !.fade_in_ =
            [bgm |-> id, bgm_id |-> id, current_volume |-> 0,
             target_volume |-> x.m.master_volume_, fade_duration |-> fade_duration,
             elapsed_time |-> 0, is_fading |-> TRUE],
        !.current_bgm_id_ = id],
       [x.b EXCEPT ![id] = MTS_play(MTS_setMasterVolume(x.b[id], 0), clock)])

BGM_playWithCrossfade(x, id, fade_duration, clock) ==
    IF getBGM(x.b, id) = NullBgm THEN x
    ELSE IF x.m.current_bgm_id_ = id THEN x
    ELSE armFadeIn(armFadeOut(x, fade_duration), id, fade_duration, clock)

BGM_playWithCrossfade_ret(x, id) == getBGM(x.b, id) # NullBgm

\* pause() and resume(): the same fan-out with MultiTrackSequencer::pause / resume
FanOut(x, F(_)) ==
    LET p  == IF x.m.current_bgm_id_ # NoId
              THEN getBGM(x.b, x.m.current_bgm_id_) ELSE NullBgm
        b1 == IF p # NullBgm THEN [x.b EXCEPT ![p] = F(x.b[p])] ELSE x.b
        b2 == IF x.m.fade_in_.is_fading /\ x.m.fade_in_.bgm # NullBgm
              THEN [b1 EXCEPT ![x.m.fade_in_.bgm] = F(b1[x.m.fade_in_.bgm])] ELSE b1
        b3 == IF x.m.fade_out_.is_fading /\ x.m.fade_out_.bgm # NullBgm
              THEN [b2 EXCEPT ![x.m.fade_out_.bgm] = F(b2[x.m.fade_out_.bgm])] ELSE b2
    IN MB(x.m, b3)

BGM_pause(x) == FanOut(x, MTS_pause)

BGM_resume(x, clock) ==
    LET R(s) == MTS_resume(s, clock) IN FanOut(x, R)

BGM_setMasterVolume(x, volume) ==
    LET v  == SDL_clamp(volume, 0, VolOne)
        p  == IF x.m.current_bgm_id_ # NoId /\ ~x.m.fade_in_.is_fading
              THEN getBGM(x.b, x.m.current_bgm_id_) ELSE NullBgm
    IN MB([x.m EXCEPT !.master_volume_ = v,
                      !.fade_in_.target_volume =
                          IF x.m.fade_in_.is_fading THEN v ELSE @],
          IF p # NullBgm THEN [x.b EXCEPT ![p] = MTS_setMasterVolume(x.b[p], v)] ELSE x.b)

BGM_isPlaying(x) ==
    /\ x.m.current_bgm_id_ # NoId
    /\ x.m.current_bgm_id_ \in DOMAIN x.b
    /\ MTS_isPlaying(x.b[x.m.current_bgm_id_])

\* updateFade on one FadeState st of manager m; returns the new FadeState in
\* st and the new song map in b
updateFade(st, master_volume, b, delta_time) ==
    IF ~st.is_fading \/ st.bgm = NullBgm THEN [st |-> st, b |-> b]
    ELSE LET elapsed  == st.elapsed_time + delta_time
             \* progress = clamp(elapsed / fade_duration, 0, 1), kept as the
             \* fraction num / fade_duration
             num      == SDL_clamp(elapsed, 0, st.fade_duration)
             start    == IF st.target_volume = 0 THEN master_volume ELSE 0
             vol      == (start * st.fade_duration
                             + (st.target_volume - start) * num) \div st.fade_duration
             done     == num >= st.fade_duration
             b1       == [b EXCEPT ![st.bgm] = MTS_setMasterVolume(b[st.bgm], vol)]
             stops    == done /\ st.target_volume = 0
         IN [st |-> [st EXCEPT !.elapsed_time = elapsed,
                               !.current_volume = vol,
                               !.is_fading = ~done,
                               !.bgm = IF stops THEN NullBgm ELSE @],
             b  |-> IF stops THEN [b1 EXCEPT ![st.bgm] = MTS_stop(b1[st.bgm])] ELSE b1]

\* the three parts of update(): lines 290-295, 296, 298-301
updateFadeIn(x, delta_time) ==
    LET r == updateFade(x.m.fade_in_, x.m.master_volume_, x.b, delta_time)
    IN MB([x.m EXCEPT !.fade_in_ = r.st], r.b)

updateFadeOut(x, delta_time) ==
    LET r == updateFade(x.m.fade_out_, x.m.master_volume_, x.b, delta_time)
    IN MB([x.m EXCEPT !.fade_out_ = r.st], r.b)

updateSongs(x) == MB(x.m, [id \in DOMAIN x.b |-> MTS_update(x.b[id])])

readClock(x, clock) == MB([x.m EXCEPT !.last_update_time_ = clock], x.b)

BGM_update(x, clock) ==
    LET delta_time == clock - x.m.last_update_time_
    IN updateSongs(updateFadeOut(updateFadeIn(readClock(x, clock), delta_time),
                                 delta_time))

----------------------------------------------------------------------------
(* The song manager with its registered songs: foreground calls, per-frame   *)
(* update() and the timer callbacks of the tracks, each run to completion.   *)
Ids == {"a", "b", "c"}          \* registered song ids
UnknownIds == {"x"}             \* ids never registered
FadeDurations == {2}            \* fade_duration arguments
MasterVolumes == {0, 4}         \* setMasterVolume arguments

SongNotes(id) == IF id = "c" THEN <<Nt(1, 1)>> ELSE <<Nt(2, 1)>>
SongLoop(id)  == IF id = "c" THEN <<FALSE, -1>> ELSE <<TRUE, -1>>

(* History of the manager run:                                              *)
(*   op, ret   the last operation with its argument, and what it returned    *)
(*   nstop     how many times in a row that operation, a stop(), has run     *)
(*   xf        a crossfade from xf_old to xf_new is running and only         *)
(*             update() was called since playWithCrossfade armed it, with    *)
(*             master volume xf_m and duration xf_D; xf_t is the sum of the  *)
(*             update() deltas since, xf_upd tells update() ran at all       *)
(*   mv        the master volume was changed since the last update()         *)
NewMHist ==
    [calls |-> 0, op |-> <<"init">>, ret |-> TRUE, nstop |-> 0, xf |-> FALSE,
     xf_new |-> NoId, xf_old |-> NoId, xf_m |-> 0, xf_D |-> 0, xf_t |-> 0,
     xf_upd |-> FALSE, mv |-> FALSE]

Did(h, op, ret) ==
    [NewMHist EXCEPT !.calls = h.calls, !.op = op, !.ret = ret, !.mv = h.mv]

DidStop(h, op) ==
    [NewMHist EXCEPT !.calls = h.calls, !.op = op, !.mv = h.mv,
                     !.nstop = IF h.op = op THEN Min(h.nstop + 1, 2) ELSE 1]

Called(h) == [h EXCEPT !.calls = h.calls + 1]

MayCall == mhist.calls < MaxCalls /\ upd.pc = "idle"

X == MB(mgr, bgm_map_)

Becomes(y) == mgr' = y.m /\ bgm_map_' = y.b

SequencerUnchanged == UNCHANGED <<trk, pc, gen, hist>>

NoSequencer == SequencerUnchanged /\ NoVoice /\ NoParser /\ NoDevices

MPlay ==
    \E id \in Ids \cup UnknownIds :
        /\ Becomes(BGM_play(X, id, now))
        /\ MayCall
        /\ mhist' = Called(Did(mhist, <<"play", id>>, BGM_play_ret(X, id)))
        /\ UNCHANGED <<now, mix, upd>> /\ NoSequencer

MPlayWithCrossfade ==
    \E id \in Ids \cup UnknownIds, D \in FadeDurations :
        /\ MayCall
        /\ Becomes(BGM_playWithCrossfade(X, id, D, now))
        /\ mhist' =
             LET h == Called(Did(mhist, <<"playWithCrossfade", id>>,
                                 BGM_playWithCrossfade_ret(X, id)))
             IN IF id \in Ids /\ mgr.current_bgm_id_ \notin {NoId, id}
                THEN [h EXCEPT !.xf = TRUE, !.xf_new = id,
                               !.xf_old = mgr.current_bgm_id_,
                               !.xf_m = mgr.master_volume_, !.xf_D = D,
                               !.xf_t = 0, !.xf_upd = FALSE]
                ELSE h
        /\ UNCHANGED <<now, mix, upd>> /\ NoSequencer

MStop ==
    /\ Becomes(BGM_stop(X))
    /\ MayCall
    /\ mhist' = Called(DidStop(mhist, <<"stop">>))
    /\ UNCHANGED <<now, mix, upd>> /\ NoSequencer

MPause ==
    /\ Becomes(BGM_pause(X))
    /\ MayCall
    /\ mhist' = Called(Did(mhist, <<"pause">>, TRUE))
    /\ UNCHANGED <<now, mix, upd>> /\ NoSequencer

MResume ==
    /\ Becomes(BGM_resume(X, now))
    /\ MayCall
    /\ mhist' = Called(Did(mhist, <<"resume">>, TRUE))
    /\ UNCHANGED <<now, mix, upd>> /\ NoSequencer

MSetMasterVolume ==
    \E v \in MasterVolumes :
        /\ Becomes(BGM_setMasterVolume(X, v))
        /\ MayCall
        /\ mhist' = [Called(Did(mhist, <<"setMasterVolume">>, TRUE)) EXCEPT
                         !.mv = @ \/ mgr'.master_volume_ # mgr.master_volume_]
        /\ UNCHANGED <<now, mix, upd>> /\ NoSequencer

\* the per-frame tick
MUpdate ==
    /\ Becomes(BGM_update(X, now))
    /\ mhist' = IF mhist.xf
                THEN [mhist EXCEPT !.op = <<"update">>, !.ret = TRUE, !.nstop = 0,
                                   !.xf_t = @ + (now - mgr.last_update_time_),
                                   !.xf_upd = TRUE, !.mv = FALSE]
                ELSE [Did(mhist, <<"update">>, TRUE) EXCEPT !.mv = FALSE]
    /\ UNCHANGED <<now, mix, upd>> /\ NoSequencer

\* The SDL timer thread: one update interval passes and the callback of
\* every armed timer runs (the clock unit is the update interval, which
\* setUpdateInterval gives all tracks alike)
timersFire(b, clock) ==
    [id \in DOMAIN b |->
        LET T(t) == IF t.sdl_timers > 0 THEN internalUpdate(t, clock) ELSE t
        IN EachTrack(b[id], T)]

MTimers ==
    /\ now + 1 <= MgrMaxTime
    /\ now' = now + 1
    /\ bgm_map_' = timersFire(bgm_map_, now')
    /\ mhist' = IF mhist.xf /\ MTS_isPlaying(bgm_map_'[mhist.xf_new])
                THEN [mhist EXCEPT !.op = <<"tick">>, !.ret = TRUE, !.nstop = 0]
                ELSE Did(mhist, <<"tick">>, TRUE)
    /\ UNCHANGED <<mgr, mix, upd>> /\ NoSequencer

MgrNext ==
    \/ MPlay \/ MPlayWithCrossfade \/ MStop \/ MPause \/ MResume
    \/ MSetMasterVolume \/ MUpdate \/ MTimers

----------------------------------------------------------------------------
(* The sequencer with its three execution contexts interleaved: foreground  *)
(* calls, the timer callback (split after the is_playing_ check of          *)
(* internalUpdate) and the audio callback (one step per sample).            *)

\* timerCallback starts, d clock units after the previous one: line 132
TickBegin ==
    \E d \in 1..MaxDelta :
        /\ pc = "idle"
        /\ trk.sdl_timers > 0
        /\ now + d <= MaxTime
        /\ now' = now + d
        /\ pc' = IF internalUpdateGuard(trk) THEN "inflight" ELSE "idle"
        /\ UNCHANGED <<trk, gen, hist>> /\ NoManager

\* the callback in flight runs lines 135-156
TickEnd ==
    /\ pc = "inflight"
    /\ pc' = "idle"
    /\ trk' = internalUpdateBody(trk, now)
    /\ hist' = HistAfterUpdate(trk, now, hist, trk')
    /\ UNCHANGED <<now, gen>> /\ NoManager

SetVolume ==
    \E v \in MasterVolumes :
        /\ trk' = [trk EXCEPT !.synthesizer_ = Synth_setVolume(@, v)]
        /\ UNCHANGED <<now, pc, gen, hist>> /\ NoManager

\* audioCallback: generateSamples starts and produces its first sample;
\* gen.snap is the voice as this call found it
GenStart ==
    /\ ~gen.active
    /\ trk.synthesizer_.is_playing_
    /\ gen' = IF BufLen > 1
              THEN [active |-> TRUE, i |-> 1, snap |-> trk.synthesizer_]
              ELSE NewGen
    /\ trk' = [trk EXCEPT !.synthesizer_ = generateSample(@)]
    /\ UNCHANGED <<now, pc, hist>> /\ NoManager

\* the next sample of the same call
GenSample ==
    /\ gen.active
    /\ gen' = IF gen.i + 1 < BufLen THEN [gen EXCEPT !.i = gen.i + 1] ELSE NewGen
    /\ trk' = [trk EXCEPT !.synthesizer_ = generateSample(@)]
    /\ UNCHANGED <<now, pc, hist>> /\ NoManager

RaceNext == Play \/ Stop \/ SetVolume \/ TickBegin \/ TickEnd \/ GenStart \/ GenSample

----------------------------------------------------------------------------
(* The song manager with the foreground (update() split at its three parts) *)
(* interleaved with the audio callback (mixSamples split at its three       *)
(* conditionals) and the timer thread.                                      *)
RECURSIVE Times(_, _, _)
Times(F(_), n, v) == IF n = 0 THEN v ELSE Times(F, n - 1, F(v))

\* MultiTrackSequencer::generateSamples: the mixer pulls every track's voice
MTS_generateSamples(s) ==
    LET G(t) == [t EXCEPT !.synthesizer_ = Times(generateSample, BufLen, @)]
    IN EachTrack(s, G)

\* lines 352-362: a new buffer, and the fading-in song
MixFadeIn ==
    /\ mix.pc \in {"idle", "done"} /\ mix.n < MaxBuffers
    /\ IF mgr.fade_in_.is_fading /\ mgr.fade_in_.bgm # NullBgm
       THEN /\ bgm_map_' = [bgm_map_ EXCEPT ![mgr.fade_in_.bgm] = MTS_generateSamples(@)]
            /\ mix' = [pc |-> "out", summed |-> <<mgr.fade_in_.bgm>>,
                       cur |-> mgr.current_bgm_id_, n |-> mix.n + 1]
       ELSE /\ bgm_map_' = bgm_map_
            /\ mix' = [pc |-> "out", summed |-> <<>>, cur |-> mgr.current_bgm_id_,
                       n |-> mix.n + 1]
    /\ UNCHANGED <<now, mgr, upd, mhist>> /\ NoSequencer

\* lines 365-370: the fading-out song
MixFadeOut ==
    /\ mix.pc = "out"
    /\ IF mgr.fade_out_.is_fading /\ mgr.fade_out_.bgm # NullBgm
       THEN /\ bgm_map_' = [bgm_map_ EXCEPT ![mgr.fade_out_.bgm] = MTS_generateSamples(@)]
            /\ mix' = [mix EXCEPT !.pc = "cur",
                                  !.summed = Append(@, mgr.fade_out_.bgm)]
       ELSE /\ bgm_map_' = bgm_map_
            /\ mix' = [mix EXCEPT !.pc = "cur"]
    /\ UNCHANGED <<now, mgr, upd, mhist>> /\ NoSequencer

\* lines 373-390: the plain current song; the buffer is complete
MixCurrent ==
    /\ mix.pc = "cur"
    /\ IF /\ mgr.current_bgm_id_ # NoId
          /\ ~mgr.fade_in_.is_fading /\ ~mgr.fade_out_.is_fading
          /\ getBGM(bgm_map_, mgr.current_bgm_id_) # NullBgm
       THEN /\ bgm_map_' = [bgm_map_ EXCEPT ![mgr.current_bgm_id_] = MTS_generateSamples(@)]
            /\ mix' = [mix EXCEPT !.pc = "done",
                                  !.summed = Append(@, mgr.current_bgm_id_)]
       ELSE /\ bgm_map_' = bgm_map_
            /\ mix' = [mix EXCEPT !.pc = "done"]
    /\ UNCHANGED <<now, mgr, upd, mhist>> /\ NoSequencer

\* update(), lines 290-295
UpdFadeIn ==
    /\ upd.pc = "idle"
    /\ upd' = [pc |-> "out", delta_time |-> now - mgr.last_update_time_]
    /\ Becomes(updateFadeIn(readClock(X, now), now - mgr.last_update_time_))
    /\ mhist' = [Did(mhist, <<"update">>, TRUE) EXCEPT !.mv = FALSE]
    /\ UNCHANGED <<now, mix>> /\ NoSequencer

\* update(), line 296
UpdFadeOut ==
    /\ upd.pc = "out"
    /\ upd' = [upd EXCEPT !.pc = "songs"]
    /\ Becomes(updateFadeOut(X, upd.delta_time))
    /\ UNCHANGED <<now, mix, mhist>> /\ NoSequencer

\* update(), lines 298-301
UpdSongs ==
    /\ upd.pc = "songs"
    /\ upd' = NewUpd
    /\ Becomes(updateSongs(X))
    /\ UNCHANGED <<now, mix, mhist>> /\ NoSequencer

\* the timer thread beside the mixer
MixTimers == now + 1 <= MixMaxTime /\ MTimers

MgrRaceNext ==
    \/ MPlay \/ MPlayWithCrossfade \/ MStop \/ MixTimers
    \/ UpdFadeIn \/ UpdFadeOut \/ UpdSongs
    \/ MixFadeIn \/ MixFadeOut \/ MixCurrent

----------------------------------------------------------------------------
(* MMLParser.  A text is a sequence of one-character strings; positions are  *)
(* 0-based as in the source, so str[pos] is str[pos + 1] here.  A duration   *)
(* is the exact fraction <<seconds numerator, denominator>> in lowest terms, *)
(* <<1, 0>> for the infinity a division by zero gives.  A volume is in       *)
(* fifteenths.                                                               *)
MAX_NOTE_SEQUENCE_SIZE == 512

Uppers ==
    <<"A", "B", "C", "D", "E", "F", "G", "H", "I", "J", "K", "L", "M",
      "N", "O", "P", "Q", "R", "S", "T", "U", "V", "W", "X", "Y", "Z">>

Lowers ==
    <<"a", "b", "c", "d", "e", "f", "g", "h", "i", "j", "k", "l", "m",
      "n", "o", "p", "q", "r", "s", "t", "u", "v", "w", "x", "y", "z">>

DigitChars == <<"0", "1", "2", "3", "4", "5", "6", "7", "8", "9">>

constexpr_tolower(c) ==
    IF \E k \in DOMAIN Uppers : Uppers[k] = c
    THEN Lowers[CHOOSE k \in DOMAIN Uppers : Uppers[k] = c]
    ELSE c

\* the vertical tab, which the source also takes for a space, cannot be written
constexpr_isspace(c) == c \in {" ", "\t", "\n", "\r", "\f"}

constexpr_isdigit(c) == \E k \in DOMAIN DigitChars : DigitChars[k] = c

DigitValue(c) == (CHOOSE k \in DOMAIN DigitChars : DigitChars[k] = c) - 1

charToNote(c) ==
    CASE c = "c" -> 0 [] c = "d" -> 2 [] c = "e" -> 4 [] c = "f" -> 5
      [] c = "g" -> 7 [] c = "a" -> 9 [] c = "b" -> 11 [] OTHER -> 0

RECURSIVE Gcd(_, _)
Gcd(a, b) == IF b = 0 THEN a ELSE Gcd(b, a % b)

Frac(n, d) == IF d = 0 THEN <<1, 0>> ELSE <<n \div Gcd(n, d), d \div Gcd(n, d)>>

\* quarter_note * 4 / note_division forgetting the factor 4
noteDuration_quarterOnly(bpm, note_division, dotted) ==
    IF dotted THEN Frac(60 * 3, bpm * note_division * 2)
    ELSE Frac(60, bpm * note_division)

\* MusicUtil::noteDuration: 60 / bpm * 4 / note_division, times 1.5 if dotted
noteDuration(bpm, note_division, dotted) ==
    IF dotted THEN Frac(60 * 4 * 3, bpm * note_division * 2)
    ELSE Frac(60 * 4, bpm * note_division)

\* parseNumber: the value of the digits at pos and the position after them
RECURSIVE parseNumberFrom(_, _, _)
parseNumberFrom(str, pos, result) ==
    IF pos < Len(str) /\ constexpr_isdigit(str[pos + 1])
    THEN parseNumberFrom(str, pos + 1, result * 10 + DigitValue(str[pos + 1]))
    ELSE [value |-> result, pos |-> pos]

parseNumber(str, pos) == parseNumberFrom(str, pos, 0)

NoteData(note, octave, duration, is_rest, wave_type, volume) ==
    [note |-> note, octave |-> octave, duration |-> duration, is_rest |-> is_rest,
     wave_type |-> wave_type, volume |-> volume]

\* push_back without the capacity check
push_back_unchecked(seq, n) == Append(seq, n)

push_back(seq, n) == IF Len(seq) < MAX_NOTE_SEQUENCE_SIZE THEN Append(seq, n) ELSE seq

\* the octave after o<oct>: a number outside 0..8 leaves it as it was
octaveCommand_clamped(octave, oct) == IF oct > 8 THEN 8 ELSE oct

octaveCommand(octave, oct) == IF oct >= 0 /\ oct <= 8 THEN oct ELSE octave

\* the locals of parse() before its loop
NewParser ==
    [i |-> 0, bpm |-> 120, default_length |-> 4, octave |-> 4,
     wave_type |-> "Sine", volume |-> 15, result |-> <<>>]

\* an optional length and an optional dot at position i (lines 124-132, 153-163)
lengthAndDot(str, i, default_length) ==
    LET n      == IF i < Len(str) /\ constexpr_isdigit(str[i + 1])
                  THEN parseNumber(str, i)
                  ELSE [value |-> default_length, pos |-> i]
        dotted == n.pos < Len(str) /\ str[n.pos + 1] = "."
    IN [length |-> n.value, dotted |-> dotted,
        pos |-> IF dotted THEN n.pos + 1 ELSE n.pos]

\* one iteration of the loop of parse() (lines 53-171)
parseStep(str, st) ==
    LET c == constexpr_tolower(str[st.i + 1])
        n == parseNumber(str, st.i + 1)
    IN CASE constexpr_isspace(c) -> [st EXCEPT !.i = st.i + 1]
         [] c = "t" ->
              [st EXCEPT !.i = n.pos,
                         !.bpm = IF n.value > 0 THEN n.value ELSE st.bpm]
         [] c = "l" ->
              [st EXCEPT !.i = n.pos,
                         !.default_length = IF n.value > 0 THEN n.value
                                            ELSE st.default_length]
         [] c = "o" ->
              [st EXCEPT !.i = n.pos,
                         !.octave = octaveCommand(st.octave, n.value)]
         [] c = "@" ->
              [st EXCEPT !.i = n.pos,
                         !.wave_type = CASE n.value = 0 -> "Sine"
                                         [] n.value = 1 -> "Square"
                                         [] n.value = 2 -> "Sawtooth"
                                         [] n.value = 3 -> "Noise"
                                         [] OTHER -> st.wave_type]
         [] c = "v" ->
              [st EXCEPT !.i = n.pos, !.volume = SDL_clamp(n.value, 0, 15)]
         [] c = ">" ->
              [st EXCEPT !.i = st.i + 1,
                         !.octave = IF st.octave < 8 THEN st.octave + 1 ELSE st.octave]
         [] c = "<" ->
              [st EXCEPT !.i = st.i + 1,
                         !.octave = IF st.octave > 0 THEN st.octave - 1 ELSE st.octave]
         [] c = "r" ->
              LET ld == lengthAndDot(str, st.i + 1, st.default_length)
              IN [st EXCEPT !.i = ld.pos,
                            !.result = push_back(st.result,
                                NoteData(0, 0, noteDuration(st.bpm, ld.length, ld.dotted),
                                         TRUE, st.wave_type, st.volume))]
         [] c \in {"a", "b", "c", "d", "e", "f", "g"} ->
              LET j    == st.i + 1
                  acc  == IF j < Len(str) /\ str[j + 1] \in {"+", "#"} THEN 1
                          ELSE IF j < Len(str) /\ str[j + 1] = "-" THEN 11
                          ELSE 0
                  note == (charToNote(c) + acc) % 12
                  ld   == lengthAndDot(str, IF acc # 0 THEN j + 1 ELSE j,
                                       st.default_length)
              IN [st EXCEPT !.i = ld.pos,
                            !.result = push_back(st.result,
                                NoteData(note, st.octave,
                                         noteDuration(st.bpm, ld.length, ld.dotted),
                                         FALSE, st.wave_type, st.volume))]
         [] OTHER -> [st EXCEPT !.i = st.i + 1]

RECURSIVE parseFrom(_, _)
parseFrom(str, st) == IF st.i < Len(str) THEN parseFrom(str, parseStep(str, st)) ELSE st

\* MMLParser::parse
parse(str) == parseFrom(str, NewParser).result

\* the texts parsed: the two texts of the parser's contract, the songs and
\* note texts below and every text of at most MaxTextLen characters of Alphabet
Alphabet == {"t", "l", "o", "c", "C", "r", " ", ".", "+", ">", "<", "0", "2", "8", "9"}

Example1 == <<"t", "1", "2", "0", " ", "o", "4", " ", "l", "4", " ", "c">>

Example2 == <<"r", "2">>

\* the two songs whose sizes the game asserts at compile time
frog_song ==
    <<"t", "1", "2", "0", " ", "o", "4", " ", "l", "4", " ", "@", "0", " ",
      "c", "d", "e", "f", "e", "d", "e", "c">>

oscillator_demo ==
    <<"t", "1", "4", "0", " ", "o", "4", " ", "l", "8", " ", "@", "1", " ",
      "c", "d", "e", "f", "g", "a", "b", ">", "c", " ", "r", "4", " ",
      "@", "2", " ", "<", "b", "a", "g", "f", "e", "d", "c">>

\* every note letter with every accidental, at the lowest, the starting and
\* the highest octave
NoteTexts ==
    {<<"o", o, l, a>> : o \in {"0", "4", "8"},
                        l \in {"a", "b", "c", "d", "e", "f", "g", "B"},
                        a \in {"+", "#", "-"}}

\* one note more than a FixedNoteSequence holds
LongText == [k \in 1..(MAX_NOTE_SEQUENCE_SIZE + 1) |-> "c"]

Texts ==
    {Example1, Example2, frog_song, oscillator_demo, LongText} \cup NoteTexts
        \cup UNION {[1..n -> Alphabet] : n \in 0..MaxTextLen}

ParseStep ==
    /\ parser.i < Len(mml)
    /\ parser' = parseStep(mml, parser)
    /\ UNCHANGED <<now, mml>> /\ SequencerUnchanged /\ ManagerUnchanged /\ NoVoice
    /\ NoDevices

ParseNext == ParseStep

----------------------------------------------------------------------------
(* One voice used directly: the foreground calls noteOn, noteOff, update and *)
(* the envelope's setADSR; the audio callback produces one sample at a time. *)
(* The constructor leaves stream_ null when the audio device cannot be       *)
(* opened.                                                                   *)
AttackTimes == {0, 1, 4}
DecayTimes == {0, 4}
SustainLevels == {-1, 2, 5}
ReleaseTimes == {0, 1, 4, 8}
Presets == {<<0, 0, -1, 0>>, <<1, 4, 5, 8>>}
NoteDurations == {0, 2}
NoteVolumes == {-4, 4, 12}

\* op: the last call; arg: the volume given to noteOn; was, gate: the
\* envelope state and the gate before the call; out: the value process()
\* last returned (0 after noteOn, until the first call); calls: process()
\* calls since the last noteOn; held: neither noteOff nor setADSR since the
\* last noteOn
NewVHist ==
    [op |-> "init", arg |-> 0, was |-> "Idle", gate |-> FALSE, out |-> 0,
     calls |-> 0, held |-> FALSE]

VDid(op, arg, out, calls, held) ==
    [op |-> op, arg |-> arg, was |-> synth.envelope_.state_, gate |-> synth.gate_,
     out |-> out, calls |-> calls, held |-> held]

VNoteOn ==
    \E d \in NoteDurations, v \in NoteVolumes :
        /\ synth' = noteOn(synth, 1, d, v)
        /\ vhist' = VDid("noteOn", v, 0, 0, synth.stream_)
        /\ UNCHANGED <<now>> /\ SequencerUnchanged /\ ManagerUnchanged /\ NoParser /\ NoDevices

VNoteOff ==
    /\ synth' = noteOff(synth)
    /\ vhist' = VDid("noteOff", 0, vhist.out, vhist.calls, FALSE)
    /\ UNCHANGED <<now>> /\ SequencerUnchanged /\ ManagerUnchanged /\ NoParser /\ NoDevices

VSetADSR ==
    \E p \in Presets :
        /\ synth' = [synth EXCEPT !.envelope_ = setADSR(@, p[1], p[2], p[3], p[4])]
        /\ vhist' = VDid("setADSR", 0, vhist.out, vhist.calls, FALSE)
        /\ UNCHANGED <<now>> /\ SequencerUnchanged /\ ManagerUnchanged /\ NoParser /\ NoDevices

VSetAttackTime ==
    \E a \in AttackTimes :
        /\ synth' = [synth EXCEPT !.envelope_ = setAttackTime(@, a)]
        /\ vhist' = VDid("setADSR", 0, vhist.out, vhist.calls, FALSE)
        /\ UNCHANGED <<now>> /\ SequencerUnchanged /\ ManagerUnchanged /\ NoParser /\ NoDevices

VSetDecayTime ==
    \E d \in DecayTimes :
        /\ synth' = [synth EXCEPT !.envelope_ = setDecayTime(@, d)]
        /\ vhist' = VDid("setADSR", 0, vhist.out, vhist.calls, FALSE)
        /\ UNCHANGED <<now>> /\ SequencerUnchanged /\ ManagerUnchanged /\ NoParser /\ NoDevices

VSetSustainLevel ==
    \E l \in SustainLevels :
        /\ synth' = [synth EXCEPT !.envelope_ = setSustainLevel(@, l)]
        /\ vhist' = VDid("setADSR", 0, vhist.out, vhist.calls, FALSE)
        /\ UNCHANGED <<now>> /\ SequencerUnchanged /\ ManagerUnchanged /\ NoParser /\ NoDevices

VSetReleaseTime ==
    \E r \in ReleaseTimes :
        /\ synth' = [synth EXCEPT !.envelope_ = setReleaseTime(@, r)]
        /\ vhist' = VDid("setADSR", 0, vhist.out, vhist.calls, FALSE)
        /\ UNCHANGED <<now>> /\ SequencerUnchanged /\ ManagerUnchanged /\ NoParser /\ NoDevices

VUpdate ==
    /\ synth' = Synth_update(synth)
    /\ vhist' = VDid("update", 0, vhist.out, vhist.calls, vhist.held)
    /\ UNCHANGED <<now>> /\ SequencerUnchanged /\ ManagerUnchanged /\ NoParser /\ NoDevices

\* the audio callback asks for one sample; a voice that is not playing gives
\* silence without calling generateSamples
VGenerate ==
    /\ synth.stream_ /\ synth.is_playing_
    /\ synth' = generateSample(synth)
    /\ vhist' = VDid("process", 0, Envelope_value(synth.envelope_),
                     Min(vhist.calls + 1, MaxProc), vhist.held)
    /\ UNCHANGED <<now>> /\ SequencerUnchanged /\ ManagerUnchanged /\ NoParser /\ NoDevices

VoiceNext ==
    \/ VNoteOn \/ VNoteOff \/ VUpdate \/ VGenerate
    \/ VSetADSR \/ VSetAttackTime \/ VSetDecayTime \/ VSetSustainLevel \/ VSetReleaseTime

----------------------------------------------------------------------------
(* Effects.  A sample is 0 (silence) or 1 (any other value): the products and *)
(* sums of process() give 0 from zeros exactly, and from other values either. *)
(* A frequency is in Hz, a Q in ten-thousandths, a gain in dB, a detune in    *)
(* cents, a rate in tenths of a Hz and a depth on the volume scale.           *)
DEFAULT_SAMPLE_RATE == 44100

NewBiquadFilter(sample_rate) ==
    [kind |-> "BiquadFilter", sample_rate_ |-> sample_rate,
     frequency_ |-> 1000, q_ |-> 10000, gain_ |-> 0, detune_ |-> 0,
     x1_ |-> 0, x2_ |-> 0, y1_ |-> 0, y2_ |-> 0]

\* the values process() can return for this input
BiquadFilter_outputs(f, input) ==
    IF input = 0 /\ f.x1_ = 0 /\ f.x2_ = 0 /\ f.y1_ = 0 /\ f.y2_ = 0
    THEN {0} ELSE {0, 1}

\* the filter after process(input) returned output
BiquadFilter_process(f, input, output) ==
    [f EXCEPT !.x2_ = f.x1_, !.x1_ = input, !.y2_ = f.y1_, !.y1_ = output]

BiquadFilter_reset(f) == [f EXCEPT !.x1_ = 0, !.x2_ = 0, !.y1_ = 0, !.y2_ = 0]

NewVolumeModulation ==
    [kind |-> "VolumeModulation", rate_ |-> 50, depth_ |-> VolOne \div 2,
     current_sample_ |-> 0]

\* modulation = 1 - depth + depth * lfo is 0 only at full depth
VolumeModulation_outputs(t, input) ==
    IF input = 0 THEN {0} ELSE IF t.depth_ = VolOne THEN {0, 1} ELSE {1}

VolumeModulation_process(t, input, output) ==
    [t EXCEPT !.current_sample_ = Min(t.current_sample_ + 1, MaxSample)]

VolumeModulation_reset(t) == [t EXCEPT !.current_sample_ = 0]

Effect_outputs(e, input) ==
    IF e.kind = "BiquadFilter" THEN BiquadFilter_outputs(e, input)
    ELSE VolumeModulation_outputs(e, input)

Effect_process(e, input, output) ==
    IF e.kind = "BiquadFilter" THEN BiquadFilter_process(e, input, output)
    ELSE VolumeModulation_process(e, input, output)

Effect_reset(e) ==
    IF e.kind = "BiquadFilter" THEN BiquadFilter_reset(e) ELSE VolumeModulation_reset(e)

\* the loop over effects_ in generateSamples: the chains and samples it can
\* leave, as records [chain, sample]
RECURSIVE applyEffects(_, _)
applyEffects(chain, input) ==
    IF chain = <<>> THEN {[chain |-> <<>>, sample |-> input]}
    ELSE UNION {{[chain |-> <<Effect_process(chain[1], input, out)>> \o r.chain,
                  sample |-> r.sample] : r \in applyEffects(Tail(chain), out)}
                : out \in Effect_outputs(chain[1], input)}

\* wave * envelope_value * note_volume_ * master_volume_ for any wave value
voiceSamples(sy) ==
    IF Envelope_value(sy.envelope_) = 0 \/ sy.note_volume_ = 0 \/ sy.master_volume_ = 0
    THEN {0} ELSE {0, 1}

addEffect(chain, effect) == Append(chain, effect)

clearEffects(chain) == <<>>

----------------------------------------------------------------------------
(* The range-limited setters of the effects, and AudioMixer.  A send level   *)
(* and a pan are in thousandths.  Indices are 0-based as in the source.      *)
BiquadFilter_setFrequency(f, frequency) ==
    [f EXCEPT !.frequency_ = SDL_clamp(frequency, 10, f.sample_rate_ \div 2 - 1)]

\* setQ refusing a value out of range
BiquadFilter_setQ_rejects(f, q) ==
    IF q >= 1 /\ q <= 10000000 THEN [f EXCEPT !.q_ = q] ELSE f

BiquadFilter_setQ(f, q) == [f EXCEPT !.q_ = SDL_clamp(q, 1, 10000000)]

BiquadFilter_setGain(f, gain) == [f EXCEPT !.gain_ = SDL_clamp(gain, -40, 40)]

BiquadFilter_setDetune(f, detune) ==
    [f EXCEPT !.detune_ = SDL_clamp(detune, -1200, 1200)]

\* SDL_powf(2.0f, detune / 1200.0f) as a fraction, for the detunes in use
\* (exact at the octaves, to five digits at a semitone)
detuneRatio(detune) ==
    CASE detune = -1200 -> <<1, 2>>
      [] detune = 100 -> <<105946, 100000>>
      [] detune = 1200 -> <<2, 1>>

\* the frequency updateCoefficients() derives the coefficients from, in Hz
getDetunedFrequency(f) ==
    IF f.detune_ = 0 THEN f.frequency_
    ELSE RoundDiv(f.frequency_ * detuneRatio(f.detune_)[1], detuneRatio(f.detune_)[2])

VolumeModulation_setRate(t, rate) == [t EXCEPT !.rate_ = SDL_clamp(rate, 1, 200)]

VolumeModulation_setDepth(t, depth) ==
    [t EXCEPT !.depth_ = SDL_clamp(depth, 0, VolOne)]

SendOne == 1000

NewAudioMixer(num_output_channels) ==
    [num_output_channels_ |-> num_output_channels, master_volume_ |-> VolOne,
     send_levels_ |-> <<>>]

\* the default send levels are 1.0 on one channel and 0.707f on each of two
addSynthesizer(m) ==
    [m EXCEPT !.send_levels_ =
        Append(@, [c \in 1..m.num_output_channels_ |->
                      IF m.num_output_channels_ = 1 THEN SendOne ELSE 707])]

AudioMixer_setSendLevel(m, synth_index, output_channel, level) ==
    IF synth_index >= Len(m.send_levels_) THEN m
    ELSE IF output_channel >= m.num_output_channels_ THEN m
    ELSE [m EXCEPT !.send_levels_[synth_index + 1][output_channel + 1] =
                        SDL_clamp(level, 0, SendOne)]

AudioMixer_getSendLevel(m, synth_index, output_channel) ==
    IF synth_index >= Len(m.send_levels_) THEN 0
    ELSE IF output_channel >= m.num_output_channels_ THEN 0
    ELSE m.send_levels_[synth_index + 1][output_channel + 1]

\* cos and sin of (pan + 1) * pi / 4 at the left, the centre and the right
panLevels(pan) ==
    CASE pan = -1000 -> <<1000, 0>>
      [] pan = 0 -> <<707, 707>>
      [] pan = 1000 -> <<0, 1000>>

AudioMixer_setPan(m, synth_index, pan) ==
    IF m.num_output_channels_ # 2 THEN m
    ELSE LET levels == panLevels(SDL_clamp(pan, -1000, 1000))
         IN AudioMixer_setSendLevel(
                AudioMixer_setSendLevel(m, synth_index, 0, levels[1]),
                synth_index, 1, levels[2])

AudioMixer_setVolume(m, volume) ==
    [m EXCEPT !.master_volume_ = SDL_clamp(volume, 0, VolOne)]

NullPtr == "nullptr"

MTS_getSynthesizer(s, track_index) ==
    IF track_index >= TrackCount THEN NullPtr
    ELSE s.tracks[track_index + 1].synthesizer_

MTS_getSequencer(s, track_index) ==
    IF track_index >= TrackCount THEN NullPtr ELSE s.tracks[track_index + 1]

\* setTrackSequence taking an index past the end for the last track
MTS_setTrackSequence_lastTrack(s, track_index, notes) ==
    [s EXCEPT !.tracks[Min(track_index, TrackCount - 1) + 1] =
                  setSequence(clear(@), notes)]

MTS_setTrackSequence(s, track_index, notes) ==
    IF track_index >= TrackCount THEN s
    ELSE [s EXCEPT !.tracks[track_index + 1] = setSequence(clear(@), notes)]

\* the filter, the tremolo and the mixer; n counts the calls made; op, arg and
\* ret are the last call, its arguments and what it returned
NewControls ==
    [filter |-> NewBiquadFilter(DEFAULT_SAMPLE_RATE), tremolo |-> NewVolumeModulation,
     mixer |-> NewAudioMixer(2), n |-> 0, op |-> "init", arg |-> <<>>, ret |-> 0]

----------------------------------------------------------------------------
(* Oscillator.  A Uint32 is the pair <<high half, low half>> of its 16-bit   *)
(* halves, so that no product leaves the integers of the checker.  A float   *)
(* of generate() is the pair <<h, l>> standing for (h * 65536 + l) / 2^31,   *)
(* with l in 0..65535; 1.0f is <<32768, 0>> and -1.0f is <<-32768, 0>>.      *)
Half == 65536

LCG_MULTIPLIER == 1664525

LCG_INCREMENT == 1013904223

DEFAULT_NOISE_SEED == 305419896

Halves(n) == <<n \div Half, n % Half>>

NewOscillator ==
    [wave_type_ |-> "Sine", noise_state_ |-> Halves(DEFAULT_NOISE_SEED)]

setWaveType(o, wave_type) == [o EXCEPT !.wave_type_ = wave_type]

setNoiseSeed(o, seed) == [o EXCEPT !.noise_state_ = seed]

\* noise_state_ * LCG_MULTIPLIER + LCG_INCREMENT in Uint32 arithmetic
lcgNext(key) ==
    LET a   == Halves(LCG_MULTIPLIER)
        c   == Halves(LCG_INCREMENT)
        low == key[2] * a[2] + c[2]
    IN <<(((key[1] * a[2]) % Half) + (key[2] * a[1]) + c[1] + (low \div Half)) % Half,
         low % Half>>

\* static_cast<int32_t>
signed32(key) == (IF key[1] >= Half \div 2 THEN key[1] - Half ELSE key[1]) * Half + key[2]

\* the spacing of the floats at n >= 0: 1 below 2^24, doubling with each bit
RECURSIVE floatUlp(_, _)
floatUlp(n, u) == IF n \div u < 16777216 THEN u ELSE floatUlp(n, 2 * u)

\* the conversion rounding towards 0 instead of to the nearest float
intToFloat_truncated(n) ==
    LET u == floatUlp(n, 1)
        q == n \div u
    IN <<q \div (Half \div u), (q % (Half \div u)) * u>>

\* the conversion of an int32 n >= 0 to float: n rounded to 24 significant
\* bits, to the nearest and to even on a tie
intToFloat(n) ==
    LET u == floatUlp(n, 1)
        q == RoundDiv(n, u)
    IN <<q \div (Half \div u), (q % (Half \div u)) * u>>

negated(f) == IF f[2] = 0 THEN <<-f[1], 0>> ELSE <<-f[1] - 1, Half - f[2]>>

\* static_cast<int32_t>(noise_state_) / 2147483648.0f
noiseValue(key) ==
    LET n == signed32(key)
    IN IF n >= 0 THEN intToFloat(n)
       ELSE IF key = <<Half \div 2, 0>> THEN <<-(Half \div 2), 0>>
       ELSE negated(intToFloat(-n))

\* generateNoise: the oscillator it leaves and the value it returns
generateNoise(o) ==
    LET key == lcgNext(o.noise_state_)
    IN [osc |-> [o EXCEPT !.noise_state_ = key], value |-> noiseValue(key)]

\* generate(phase), the phase in quarters of a cycle; a sine is not generated
generate(o, phase) ==
    CASE o.wave_type_ = "Square" ->
            [osc |-> o, value |-> IF phase < 2 THEN <<Half \div 2, 0>>
                                  ELSE <<-(Half \div 2), 0>>]
      [] o.wave_type_ = "Sawtooth" ->
            [osc |-> o, value |-> <<(phase - 2) * (Half \div 4), 0>>]
      [] o.wave_type_ = "Noise" -> generateNoise(o)

\* one oscillator with what was seen of it: seed, the noise state it was last
\* given; outs, the values generated since; pure, these were all noise
Observed(o) == [o |-> o, seed |-> o.noise_state_, outs |-> <<>>, pure |-> TRUE]

NewOscillators == [k \in {1, 2} |-> Observed(setWaveType(NewOscillator, "Noise"))]

----------------------------------------------------------------------------
(* The voice with an effect chain: the calls of the foreground and the audio *)
(* callback                                                                   *)
ChainFrame ==
    /\ UNCHANGED <<now, ctl, osc, fns>>
    /\ SequencerUnchanged /\ ManagerUnchanged /\ NoParser

CAddFilter ==
    /\ Len(fx) < MaxEffects
    /\ fx' = addEffect(fx, NewBiquadFilter(DEFAULT_SAMPLE_RATE))
    /\ vhist' = VDid("addEffect", 0, 0, vhist.calls, vhist.held)
    /\ UNCHANGED synth /\ ChainFrame

CAddTremolo ==
    /\ Len(fx) < MaxEffects
    /\ fx' = addEffect(fx, NewVolumeModulation)
    /\ vhist' = VDid("addEffect", 0, 0, vhist.calls, vhist.held)
    /\ UNCHANGED synth /\ ChainFrame

CClearEffects ==
    /\ fx' = clearEffects(fx)
    /\ vhist' = VDid("clearEffects", 0, 0, vhist.calls, vhist.held)
    /\ UNCHANGED synth /\ ChainFrame

CNoteOn ==
    /\ synth' = noteOn(synth, 1, 0, VolOne)
    /\ vhist' = VDid("noteOn", VolOne, 0, 0, synth.stream_)
    /\ UNCHANGED fx /\ ChainFrame

CNoteOff ==
    /\ synth' = noteOff(synth)
    /\ vhist' = VDid("noteOff", 0, 0, vhist.calls, FALSE)
    /\ UNCHANGED fx /\ ChainFrame

CUpdate ==
    /\ synth' = Synth_update(synth)
    /\ vhist' = VDid("update", 0, 0, vhist.calls, vhist.held)
    /\ UNCHANGED fx /\ ChainFrame

\* the audio callback asks for one sample of a playing voice
CGenerate ==
    /\ synth.stream_ /\ synth.is_playing_
    /\ \E input \in voiceSamples(synth) : \E r \in applyEffects(fx, input) :
          /\ fx' = r.chain
          /\ vhist' = VDid("process", 0, r.sample, Min(vhist.calls + 1, MaxProc),
                           vhist.held)
    /\ synth' = generateSample(synth)
    /\ ChainFrame

ChainNext ==
    \/ CAddFilter \/ CAddTremolo \/ CClearEffects
    \/ CNoteOn \/ CNoteOff \/ CUpdate \/ CGenerate

----------------------------------------------------------------------------
(* Calls of the foreground with arguments in and out of range, on a filter,  *)
(* a tremolo, a mixer, the voice, the song "a" and the song manager          *)
Frequencies == {-5, 440, 30000}
Qs == {0, 5000, 20000000}
Gains == {-50, 6, 50}
Detunes == {-2000, 100, 2000}
Rates == {0, 70, 500}
Depths == {-1, 2, 12}
Volumes == {-4, 4, 12}
SendLevels == {-1, 500, 2000}
Pans == {-2000, -1000, 0, 3000}
VoiceIndices == {0, 1, 2}
ChannelIndices == {0, 1, 2}
TrackIndices == {0, 1}

MayControl == ctl.n < MaxControls

Controlled(c, op, arg, ret) ==
    [c EXCEPT !.n = c.n + 1, !.op = op, !.arg = arg, !.ret = ret]

ControlFrame ==
    /\ UNCHANGED <<now, fx, osc, fns, vhist, mix, upd, mhist>>
    /\ SequencerUnchanged /\ NoParser

KSetFrequency ==
    /\ MayControl
    /\ \E v \in Frequencies :
          ctl' = Controlled([ctl EXCEPT !.filter = BiquadFilter_setFrequency(@, v)],
                            "setFrequency", <<v>>, 0)
    /\ UNCHANGED <<synth, mgr, bgm_map_>> /\ ControlFrame

KSetQ ==
    /\ MayControl
    /\ \E v \in Qs :
          ctl' = Controlled([ctl EXCEPT !.filter = BiquadFilter_setQ(@, v)],
                            "setQ", <<v>>, 0)
    /\ UNCHANGED <<synth, mgr, bgm_map_>> /\ ControlFrame

KSetGain ==
    /\ MayControl
    /\ \E v \in Gains :
          ctl' = Controlled([ctl EXCEPT !.filter = BiquadFilter_setGain(@, v)],
                            "setGain", <<v>>, 0)
    /\ UNCHANGED <<synth, mgr, bgm_map_>> /\ ControlFrame

KSetDetune ==
    /\ MayControl
    /\ \E v \in Detunes :
          ctl' = Controlled([ctl EXCEPT !.filter = BiquadFilter_setDetune(@, v)],
                            "setDetune", <<v>>, 0)
    /\ UNCHANGED <<synth, mgr, bgm_map_>> /\ ControlFrame

KSetRate ==
    /\ MayControl
    /\ \E v \in Rates :
          ctl' = Controlled([ctl EXCEPT !.tremolo = VolumeModulation_setRate(@, v)],
                            "setRate", <<v>>, 0)
    /\ UNCHANGED <<synth, mgr, bgm_map_>> /\ ControlFrame

KSetDepth ==
    /\ MayControl
    /\ \E v \in Depths :
          ctl' = Controlled([ctl EXCEPT !.tremolo = VolumeModulation_setDepth(@, v)],
                            "setDepth", <<v>>, 0)
    /\ UNCHANGED <<synth, mgr, bgm_map_>> /\ ControlFrame

KSetVoiceVolume ==
    /\ MayControl
    /\ \E v \in Volumes :
          /\ synth' = Synth_setVolume(synth, v)
          /\ ctl' = Controlled(ctl, "Synth_setVolume", <<v>>, 0)
    /\ UNCHANGED <<mgr, bgm_map_>> /\ ControlFrame

KSetMixerVolume ==
    /\ MayControl
    /\ \E v \in Volumes :
          ctl' = Controlled([ctl EXCEPT !.mixer = AudioMixer_setVolume(@, v)],
                            "AudioMixer_setVolume", <<v>>, 0)
    /\ UNCHANGED <<synth, mgr, bgm_map_>> /\ ControlFrame

KSetSongVolume ==
    /\ MayControl
    /\ \E v \in Volumes :
          /\ bgm_map_' = [bgm_map_ EXCEPT !["a"] = MTS_setMasterVolume(@, v)]
          /\ ctl' = Controlled(ctl, "MTS_setMasterVolume", <<v>>, 0)
    /\ UNCHANGED <<synth, mgr>> /\ ControlFrame

KSetManagerVolume ==
    /\ MayControl
    /\ \E v \in Volumes :
          /\ Becomes(BGM_setMasterVolume(X, v))
          /\ ctl' = Controlled(ctl, "BGM_setMasterVolume", <<v>>, 0)
    /\ UNCHANGED synth /\ ControlFrame

\* the manager starts a song, so that its volume goes to the song too
KPlay ==
    /\ MayControl
    /\ Becomes(BGM_play(X, "a", now))
    /\ ctl' = Controlled(ctl, "play", <<>>, 0)
    /\ UNCHANGED synth /\ ControlFrame

KSetSendLevel ==
    /\ MayControl
    /\ \E i \in VoiceIndices, c \in ChannelIndices, v \in SendLevels :
          ctl' = Controlled([ctl EXCEPT !.mixer = AudioMixer_setSendLevel(@, i, c, v)],
                            "setSendLevel", <<i, c, v>>, 0)
    /\ UNCHANGED <<synth, mgr, bgm_map_>> /\ ControlFrame

KGetSendLevel ==
    /\ MayControl
    /\ \E i \in VoiceIndices, c \in ChannelIndices :
          ctl' = Controlled(ctl, "getSendLevel", <<i, c>>,
                            AudioMixer_getSendLevel(ctl.mixer, i, c))
    /\ UNCHANGED <<synth, mgr, bgm_map_>> /\ ControlFrame

KSetPan ==
    /\ MayControl
    /\ \E i \in VoiceIndices, v \in Pans :
          ctl' = Controlled([ctl EXCEPT !.mixer = AudioMixer_setPan(@, i, v)],
                            "setPan", <<i, v>>, 0)
    /\ UNCHANGED <<synth, mgr, bgm_map_>> /\ ControlFrame

KSetTrackSequence ==
    /\ MayControl
    /\ \E i \in TrackIndices, notes \in {<<>>, <<Nt(1, 2)>>} :
          /\ bgm_map_' = [bgm_map_ EXCEPT !["a"] = MTS_setTrackSequence(@, i, notes)]
          /\ ctl' = Controlled(ctl, "setTrackSequence", <<i>>, 0)
    /\ UNCHANGED <<synth, mgr>> /\ ControlFrame

KGetSynthesizer ==
    /\ MayControl
    /\ \E i \in TrackIndices :
          ctl' = Controlled(ctl, "getSynthesizer", <<i>>,
                            MTS_getSynthesizer(bgm_map_["a"], i))
    /\ UNCHANGED <<synth, mgr, bgm_map_>> /\ ControlFrame

KGetSequencer ==
    /\ MayControl
    /\ \E i \in TrackIndices :
          ctl' = Controlled(ctl, "getSequencer", <<i>>,
                            MTS_getSequencer(bgm_map_["a"], i))
    /\ UNCHANGED <<synth, mgr, bgm_map_>> /\ ControlFrame

ControlNext ==
    \/ KSetFrequency \/ KSetQ \/ KSetGain \/ KSetDetune \/ KSetRate \/ KSetDepth
    \/ KSetVoiceVolume \/ KSetMixerVolume \/ KSetSongVolume \/ KSetManagerVolume
    \/ KPlay \/ KSetSendLevel \/ KGetSendLevel \/ KSetPan
    \/ KSetTrackSequence \/ KGetSynthesizer \/ KGetSequencer

----------------------------------------------------------------------------
(* Two oscillators seeded and asked for values *)
Phases == {0, 3}
Seeds == {Halves(DEFAULT_NOISE_SEED), <<0, 0>>, <<42741, 46880>>, <<65535, 65535>>}
WaveTypes == {"Square", "Sawtooth", "Noise"}

NoiseFrame ==
    /\ UNCHANGED <<now, fx, ctl, fns>>
    /\ SequencerUnchanged /\ ManagerUnchanged /\ NoVoice /\ NoParser

NSetNoiseSeed ==
    /\ \E k \in DOMAIN osc, seed \in Seeds :
          osc' = [osc EXCEPT ![k] = Observed(setNoiseSeed(osc[k].o, seed))]
    /\ NoiseFrame

NSetWaveType ==
    /\ \E k \in DOMAIN osc, w \in WaveTypes :
          osc' = [osc EXCEPT ![k].o = setWaveType(@, w)]
    /\ NoiseFrame

NGenerate ==
    /\ \E k \in DOMAIN osc, phase \in Phases :
          LET g == generate(osc[k].o, phase) IN
          /\ Len(osc[k].outs) < MaxNoise
          /\ osc' = [osc EXCEPT ![k].o = g.osc,
                                ![k].outs = Append(@, g.value),
                                ![k].pure = @ /\ osc[k].o.wave_type_ = "Noise"]
    /\ NoiseFrame

NoiseNext == NSetNoiseSeed \/ NSetWaveType \/ NGenerate

----------------------------------------------------------------------------
(* FixedNoteSequence: size_ and the array data_ of MAX_NOTE_SEQUENCE_SIZE    *)
(* NoteData, of which the record keeps the slots written so far: every slot  *)
(* after Len(data_) still holds DefaultNoteData.  begin() is the start of    *)
(* the array and end() lies size_ elements after it.                         *)

\* NoteData(): the defaults of its constructor
DefaultNoteData == NoteData(0, 4, <<1, 2>>, FALSE, "Sine", 15)

NewFixedNoteSequence == [size_ |-> 0, data_ |-> <<>>]

\* the constructor from a span
FixedNoteSequence_fromSpan(notes) ==
    [size_ |-> Len(notes),
     data_ |-> [i \in 1..Min(Len(notes), MAX_NOTE_SEQUENCE_SIZE) |-> notes[i]]]

FixedNoteSequence_push_back(q, note) ==
    IF q.size_ < MAX_NOTE_SEQUENCE_SIZE
    THEN [q EXCEPT !.data_ = IF q.size_ < Len(q.data_)
                             THEN [q.data_ EXCEPT ![q.size_ + 1] = note]
                             ELSE Append(q.data_, note),
                   !.size_ = q.size_ + 1]
    ELSE q

FixedNoteSequence_clear(q) == [q EXCEPT !.size_ = 0]

FixedNoteSequence_size(q) == q.size_

FixedNoteSequence_capacity(q) == MAX_NOTE_SEQUENCE_SIZE

\* end() - begin(), in elements
FixedNoteSequence_end(q) == q.size_

\* the sequence with the calls made on it: n, their number; op, the last one
NewBuffer == [q |-> NewFixedNoteSequence, n |-> 0, op |-> "init"]

----------------------------------------------------------------------------
(* A FixedNoteSequence constructed, filled and cleared by its user *)
SpanLengths == {0, 1, 2, 511, 512, 513}
SpanNotes == {NoteData(0, 4, <<1, 4>>, FALSE, "Sine", 15),
              NoteData(0, 0, <<1, 2>>, TRUE, "Sine", 15)}

BufferFrame ==
    /\ fns'.n = fns.n + 1 /\ fns.n < MaxBufOps
    /\ UNCHANGED <<now, fx, ctl, osc>>
    /\ SequencerUnchanged /\ ManagerUnchanged /\ NoVoice /\ NoParser

FConstruct ==
    /\ fns' = [q |-> NewFixedNoteSequence, n |-> fns.n + 1, op |-> "construct"]
    /\ BufferFrame

FFromSpan ==
    \E len \in SpanLengths, note \in SpanNotes :
        /\ fns' = [q |-> FixedNoteSequence_fromSpan([i \in 1..len |-> note]),
                   n |-> fns.n + 1, op |-> "fromSpan"]
        /\ BufferFrame

FPushBack ==
    \E note \in SpanNotes :
        /\ fns' = [q |-> FixedNoteSequence_push_back(fns.q, note),
                   n |-> fns.n + 1, op |-> "push_back"]
        /\ BufferFrame

FClear ==
    /\ fns' = [q |-> FixedNoteSequence_clear(fns.q), n |-> fns.n + 1, op |-> "clear"]
    /\ BufferFrame

BufferNext == FConstruct \/ FFromSpan \/ FPushBack \/ FClear

----------------------------------------------------------------------------
(* Initial states and specifications *)

SequencerIdle ==
    /\ trk = NewTrack /\ pc = "idle" /\ gen = NewGen /\ hist = NewHist

ManagerIdle ==
    /\ mgr = NewManager /\ bgm_map_ = <<>>
    /\ mix = NewMix /\ upd = NewUpd /\ mhist = NewMHist

VoiceIdle == synth = NewSynth /\ vhist = NewVHist

ParserIdle == mml = <<>> /\ parser = NewParser

DevicesIdle == fx = <<>> /\ ctl = NewControls /\ osc = NewOscillators /\ fns = NewBuffer

SeqInit ==
    now = 0 /\ SequencerIdle /\ ManagerIdle /\ VoiceIdle /\ ParserIdle /\ DevicesIdle

Spec == SeqInit /\ [][SeqNext]_vars

MgrInit ==
    /\ now = 0 /\ SequencerIdle
    /\ mgr = NewManager
    /\ bgm_map_ = [id \in Ids |-> NewSong(SongNotes(id), SongLoop(id))]
    /\ mix = NewMix /\ upd = NewUpd /\ mhist = NewMHist
    /\ VoiceIdle /\ ParserIdle /\ DevicesIdle

MgrSpec == MgrInit /\ [][MgrNext]_vars

MgrRaceSpec == MgrInit /\ [][MgrRaceNext]_vars

\* the sequencer of the interleaved specification was given its notes and its
\* loop setting before the threads start
RaceInit ==
    /\ now = 0 /\ pc = "idle" /\ gen = NewGen /\ hist = NewHist /\ ManagerIdle
    /\ VoiceIdle /\ ParserIdle /\ DevicesIdle
    /\ \E s \in Sequences \ {<<>>}, c \in LoopConfigs :
          trk = setLoop(setSequence(NewTrack, s), c[1], c[2])

RaceSpec == RaceInit /\ [][RaceNext]_vars

\* the voice alone; its audio stream was opened or not
VoiceInit ==
    /\ now = 0 /\ SequencerIdle /\ ManagerIdle /\ ParserIdle /\ DevicesIdle
    /\ \E st \in BOOLEAN : synth = [NewSynth EXCEPT !.stream_ = st]
    /\ vhist = NewVHist

VoiceSpec == VoiceInit /\ [][VoiceNext]_vars

\* parse() called on a text
ParseInit ==
    /\ now = 0 /\ SequencerIdle /\ ManagerIdle /\ VoiceIdle /\ DevicesIdle
    /\ mml \in Texts /\ parser = NewParser

ParseSpec == ParseInit /\ [][ParseNext]_vars

\* a voice whose stream was opened, with an empty effect chain
ChainInit == SeqInit

ChainSpec == ChainInit /\ [][ChainNext]_vars

\* the registered songs of the manager, a voice, and a mixer of one or two
\* output channels to which up to two voices were added
ControlInit ==
    /\ now = 0 /\ SequencerIdle /\ VoiceIdle /\ ParserIdle
    /\ mgr = NewManager
    /\ bgm_map_ = [id \in Ids |-> NewSong(SongNotes(id), SongLoop(id))]
    /\ mix = NewMix /\ upd = NewUpd /\ mhist = NewMHist
    /\ fx = <<>> /\ osc = NewOscillators /\ fns = NewBuffer
    /\ \E ch \in {1, 2} :
          ctl \in {[NewControls EXCEPT !.mixer = m] :
                     m \in {NewAudioMixer(ch), addSynthesizer(NewAudioMixer(ch)),
                            addSynthesizer(addSynthesizer(NewAudioMixer(ch)))}}

ControlSpec == ControlInit /\ [][ControlNext]_vars

\* two oscillators of wave type Noise with the default seed
NoiseInit == SeqInit

NoiseSpec == NoiseInit /\ [][NoiseNext]_vars

\* a FixedNoteSequence, default-constructed
BufferInit == SeqInit

BufferSpec == BufferInit /\ [][BufferNext]_vars

----------------------------------------------------------------------------
(* Claims about the sequencer, checked under Spec *)

\* a run started by play() whose loop setting and note list were not touched since
CleanRun == hist.started /\ ~hist.dirty

\* C1: after setLoop(true, N) with N >= 0 and play(), the sequencer plays
\* exactly N+1 full traversals of the note list: while it is playing it has
\* finished at most N of them, and when the sequence has ended by itself it has
\* finished N+1 and isPlaying() is false.
C1_LoopPlaysNPlusOne ==
    (CleanRun /\ trk.loop_enabled_ /\ trk.loop_count_ >= 0) =>
        /\ trk.is_playing_ => hist.traversals <= trk.loop_count_
        /\ hist.ended => (hist.traversals = trk.loop_count_ + 1 /\ ~trk.is_playing_)

C1_Witness ==
    /\ CleanRun /\ trk.loop_enabled_ /\ trk.loop_count_ = 1
    /\ hist.ended /\ hist.traversals = 2 /\ Len(trk.sequence_) = 2

\* C2: a non-looping sequence of total duration T is no longer playing after
\* the first timer callback that runs T or more after play().
C2_StopsWithinOneTick ==
    (CleanRun /\ ~trk.loop_enabled_ /\ trk.is_playing_) =>
        trk.last_update_time_ - hist.play_time < SumDur(trk.sequence_)

\* C3: while a sequence plays, the time since play() is the sum of the
\* durations of all notes finished so far plus the elapsed time in the current
\* note, also across loop restarts.
C3_NoDrift ==
    (CleanRun /\ trk.is_playing_) =>
        trk.last_update_time_ - hist.play_time = hist.finished + trk.sequence_time_

----------------------------------------------------------------------------
(* Claims about the interleaved sequencer, checked under RaceSpec *)

\* C4: once stop() has returned (and until the next play()) the timer is
\* disarmed and the voice's gate is clear, whatever a timer callback that
\* was in flight during stop() does afterwards.
C4_StopSilences ==
    hist.stopped =>
        /\ trk.timer_id_ = 0 /\ trk.sdl_timers = 0
        /\ ~trk.synthesizer_.gate_

\* C7: inside one generateSamples call every sample is computed from the
\* gate, frequency, volumes and sample counter that the call found when it
\* started: no command lands between two samples of a buffer.
C7_BufferSeesOneState ==
    gen.active =>
        LET sy == trk.synthesizer_ IN
        /\ sy.gate_ = gen.snap.gate_
        /\ sy.frequency = gen.snap.frequency
        /\ sy.note_volume_ = gen.snap.note_volume_
        /\ sy.master_volume_ = gen.snap.master_volume_
        /\ sy.current_sample_ = Min(gen.snap.current_sample_ + gen.i, MaxSample)

----------------------------------------------------------------------------
(* Claims about the interleaved song manager, checked under MgrRaceSpec *)

\* C8: in every buffer mixSamples produces, no song is summed twice, and the
\* song that is current throughout the buffer is summed.
C8_EachSongSummedOnce ==
    mix.pc = "done" =>
        /\ \A i, j \in DOMAIN mix.summed : mix.summed[i] = mix.summed[j] => i = j
        /\ (mix.cur # NoId /\ mgr.current_bgm_id_ = mix.cur) =>
               \E i \in DOMAIN mix.summed : mix.summed[i] = mix.cur

----------------------------------------------------------------------------
(* Claims about the song manager, checked under MgrSpec *)

Volume(id) == bgm_map_[id].master_volume_

Playing(id) == MTS_isPlaying(bgm_map_[id])

\* the last operation was op(id) for an op of names
OpIs(h, names) == Len(h.op) = 2 /\ h.op[1] \in names

\* C5: during a crossfade of duration D started while another song was
\* current, with the master volume m unchanged, after update() ticks totalling
\* t the fading-in song is at m*min(t/D,1) and the fading-out song at
\* m*(1-min(t/D,1)); once t >= D both fades are disarmed, the old song is
\* stopped and the new song is the current one, playing at m.
C5_CrossfadeVolumes ==
    (mhist.xf /\ mhist.xf_upd) =>
        LET m == mhist.xf_m
            D == mhist.xf_D
            p == Min(mhist.xf_t, D)
        IN /\ Volume(mhist.xf_new) * D = m * p
           /\ Volume(mhist.xf_old) * D = m * (D - p)
           /\ mhist.xf_t >= D =>
                /\ ~mgr.fade_in_.is_fading /\ ~mgr.fade_out_.is_fading
                /\ ~Playing(mhist.xf_old)
                /\ Playing(mhist.xf_new)
                /\ Volume(mhist.xf_new) = m
                /\ mgr.current_bgm_id_ = mhist.xf_new

\* C6: right after play(id) has returned true, id is the current song, it is
\* playing at the master volume, neither fade is armed and no other registered
\* song is playing.
C6_PlayLeavesOneSong ==
    (OpIs(mhist, {"play"}) /\ mhist.ret) =>
        LET id == mhist.op[2] IN
        /\ mgr.current_bgm_id_ = id
        /\ Playing(id)
        /\ Volume(id) = mgr.master_volume_
        /\ ~mgr.fade_in_.is_fading /\ ~mgr.fade_out_.is_fading
        /\ \A other \in Ids \ {id} : ~Playing(other)

\* C9: play(id) and playWithCrossfade(id, d) with an id that is not
\* registered return false and change neither the manager's fields (current
\* id, both FadeStates, master volume) nor any registered song.
C9_UnknownIdChangesNothing ==
    [][(/\ mhist'.calls = mhist.calls + 1
        /\ OpIs(mhist', {"play", "playWithCrossfade"})
        /\ mhist'.op[2] \in UnknownIds)
       => (~mhist'.ret /\ UNCHANGED <<mgr, bgm_map_>>)]_vars

C9_Witness ==
    /\ OpIs(mhist, {"play"}) /\ mhist.op[2] \in UnknownIds /\ ~mhist.ret
    /\ mgr.fade_in_.is_fading /\ mgr.fade_out_.is_fading
    /\ mgr.current_bgm_id_ # NoId /\ Playing(mgr.current_bgm_id_)

\* C10: stop() is idempotent on the Sequencer, the MultiTrackSequencer and
\* the BGMManager: in every reachable state a second stop() changes nothing
\* that the first one left, and stop() on an instance that was never started
\* changes nothing at all.
C10_StopIdempotent ==
    /\ BGM_stop(BGM_stop(X)) = BGM_stop(X)
    /\ \A id \in Ids :
          /\ MTS_stop(MTS_stop(bgm_map_[id])) = MTS_stop(bgm_map_[id])
          /\ \A i \in DOMAIN bgm_map_[id].tracks :
                LET t == bgm_map_[id].tracks[i]
                IN Sequencer_stop(Sequencer_stop(t)) = Sequencer_stop(t)
    /\ mhist.calls = 0 =>
          /\ BGM_stop(X) = X
          /\ \A id \in Ids :
                /\ MTS_stop(bgm_map_[id]) = bgm_map_[id]
                /\ \A i \in DOMAIN bgm_map_[id].tracks :
                      Sequencer_stop(bgm_map_[id].tracks[i]) = bgm_map_[id].tracks[i]

C10_Witness ==
    /\ mhist.op = <<"stop">> /\ mhist.nstop = 2
    /\ mgr.current_bgm_id_ = NoId
    /\ \E id \in Ids : /\ bgm_map_[id].tracks[1].synthesizer_.is_playing_
                       /\ ~Playing(id)
                       /\ bgm_map_[id].tracks[1].sdl_timers = 0


----------------------------------------------------------------------------
(* Claims about the voice and its envelope, checked under VoiceSpec *)

\* C11: after noteOff with releaseTime > 0 the per-sample process() calls bring
\* the envelope to level <= 0 and state Idle, and the next update() then marks
\* the voice not playing: no Release state is left unchanged by process(),
\* which is what reaching Idle after finitely many calls needs, and update()
\* clears the playing flag of a released voice whose envelope is Idle.
C11_ReleaseEnds ==
    LET e == synth.envelope_ IN
    /\ (~synth.gate_ /\ e.state_ = "Release" /\ e.release_time_ > 0)
           => Envelope_process(e) # e
    /\ (~synth.gate_ /\ e.state_ = "Idle" /\ synth.is_playing_)
           => ~Synth_update(synth).is_playing_

\* C12: whatever the ADSR parameters, every value process() returns is in
\* [0, 1], and it is 0 when the envelope was Idle.
C12_OutputInRange ==
    /\ Envelope_value(synth.envelope_) \in 0..LevelOne
    /\ vhist.op = "process" =>
          /\ vhist.out \in 0..LevelOne
          /\ vhist.was = "Idle" => vhist.out = 0

C12_Witness ==
    /\ vhist.op = "process"
    /\ synth.envelope_.state_ = "Idle" /\ vhist.was = "Release"
    /\ synth.envelope_.release_time_ = 1
    /\ synth.envelope_.sustain_level_ = LevelOne

\* C13: after noteOn and at least sampleRate * (attackTime + decayTime)
\* process() calls, with no noteOff (and no parameter change) in between, the
\* envelope is in Sustain and the next process() returns sustainLevel.
C13_SustainAfterAttackDecay ==
    LET e == synth.envelope_ IN
    (/\ vhist.op = "process" /\ vhist.held
     /\ vhist.calls * SamplePeriod >= e.attack_time_ + e.decay_time_)
        => (e.state_ = "Sustain" /\ Envelope_value(e) = e.sustain_level_)

\* what noteOn(freq, duration, v) leaves behind
Restarted(s, v) ==
    /\ s.current_sample_ = 0
    /\ s.note_volume_ = (IF v < 0 THEN 0 ELSE IF v > VolOne THEN VolOne ELSE v)
    /\ s.gate_
    /\ s.envelope_.state_ = "Attack" /\ s.envelope_.current_level_ = 0

\* what noteOff() does to voice s, giving t
Released(s, t) ==
    IF s.gate_
    THEN ~t.gate_ /\ t.envelope_.state_ = "Release"
    ELSE t = s

\* C14 as stated: noteOn, from any state, resets the sample counter, stores the
\* clamped note volume, sets the gate and puts the envelope in Attack at level
\* 0; noteOff clears the gate and puts the envelope in Release, and changes
\* nothing when the gate is already clear.
C14_NoteOnFromAnyState ==
    [][/\ vhist'.op = "noteOn" => Restarted(synth', vhist'.arg)
       /\ vhist'.op = "noteOff" => Released(synth, synth')]_vars

\* C14 amended: the same on a voice whose audio stream was opened; on a voice
\* whose stream is null noteOn changes nothing.
C14_NoteOnWithStream ==
    [][/\ vhist'.op = "noteOn" =>
             IF synth.stream_ THEN Restarted(synth', vhist'.arg) ELSE synth' = synth
       /\ vhist'.op = "noteOff" => Released(synth, synth')]_vars

\* a noteOn that cut off a note in its Decay
C14_Witness ==
    /\ vhist.op = "noteOn"
    /\ vhist.gate /\ vhist.was = "Decay"
    /\ synth.envelope_.state_ = "Attack" /\ vhist.arg > VolOne

\* C15: update() issues noteOff exactly when the gate is set, the note duration
\* is > 0 and the time of the sample counter has reached it; it clears the
\* playing flag exactly when the gate is then clear and the envelope Idle; it
\* changes neither the sample counter nor the frequency nor the volumes, and
\* never releases a note of duration 0.
C15_UpdateFrameEffect ==
    [][vhist'.op = "update" =>
        LET s == synth
            t == synth'
            expired == /\ s.gate_ /\ s.note_duration_ > 0
                       /\ s.current_sample_ >= s.note_duration_ * SamplesPerUnit
        IN /\ t.current_sample_ = s.current_sample_
           /\ t.frequency = s.frequency
           /\ t.note_volume_ = s.note_volume_ /\ t.master_volume_ = s.master_volume_
           /\ t.note_duration_ = s.note_duration_
           /\ t.gate_ = (s.gate_ /\ ~expired)
           /\ t.envelope_ = (IF expired THEN Envelope_noteOff(s.envelope_)
                             ELSE s.envelope_)
           /\ t.is_playing_ = (s.is_playing_
                               /\ ~(~t.gate_ /\ t.envelope_.state_ = "Idle"))
           /\ (s.note_duration_ = 0 => t.gate_ = s.gate_)]_vars

\* an update() that released an expired note
C15_Witness ==
    /\ vhist.op = "update"
    /\ vhist.gate /\ ~synth.gate_
    /\ synth.envelope_.state_ = "Release"


----------------------------------------------------------------------------
(* Further claims about the song manager and its songs, checked under MgrSpec *)

\* the tracks of song s all stand at the start of their note list
AtStart(s) ==
    \A i \in DOMAIN s.tracks :
        s.tracks[i].current_note_index_ = 0 /\ s.tracks[i].sequence_time_ = 0

\* C16: on every song, pause() then resume() gives what stop() then play()
\* gives, with every track at note index 0 and elapsed time 0; a paused song
\* is not playing; resume() on a song that is not paused and pause() on a
\* paused song change nothing.
C16_PauseResumeIsStopPlay ==
    \A id \in DOMAIN bgm_map_ :
        LET s == bgm_map_[id] IN
        /\ s.is_paused_ => ~MTS_isPlaying(s)
        /\ ~MTS_isPlaying(MTS_pause(s))
        /\ MTS_pause(MTS_pause(s)) = MTS_pause(s)
        /\ ~s.is_paused_ =>
              /\ MTS_resume(s, now) = s
              /\ MTS_resume(MTS_pause(s), now) = MTS_play(MTS_stop(s), now)
              /\ AtStart(MTS_resume(MTS_pause(s), now))

\* the manager resumed its current song after a pause
C16_Witness ==
    /\ mhist.op = <<"resume">>
    /\ mgr.current_bgm_id_ # NoId
    /\ now > 0
    /\ MTS_isPlaying(bgm_map_[mgr.current_bgm_id_])
    /\ AtStart(bgm_map_[mgr.current_bgm_id_])
    /\ bgm_map_[mgr.current_bgm_id_].tracks[1].last_update_time_ = now

\* C17: whenever isPlaying() is false, getCurrentBGMId() is the empty string.
C17_NoIdWhenNotPlaying ==
    ~BGM_isPlaying(X) => mgr.current_bgm_id_ = NoId


----------------------------------------------------------------------------
(* Claims about the parser, checked under ParseSpec *)

ParseDone == parser.i >= Len(mml)

\* the characters the step from the current state consumes, their number (the
\* default length when they hold no digit) and whether they end in a dot
Token == SubSeq(mml, parser.i + 1, parser'.i)

TokenNumber(default) ==
    LET digits == SelectSeq(Token, constexpr_isdigit)
    IN IF digits = <<>> THEN default ELSE parseNumber(digits, 0).value

TokenDotted == Token[Len(Token)] = "."

Emits == Len(parser'.result) = Len(parser.result) + 1

Last(seq) == seq[Len(seq)]

\* C18: parse("t120 o4 l4 c") is one note C of octave 4, 0.5 s, not a rest,
\* volume 1.0; parse("r2") is one rest of 1.0 s; and every emitted duration is
\* (60 / bpm) * (4 / division), times 1.5 if dotted, for the tempo and the
\* default length in force at its token.
C18_ParseDurations ==
    [][/\ (mml = Example1 /\ ParseDone') =>
              parser'.result = <<NoteData(0, 4, <<1, 2>>, FALSE, "Sine", 15)>>
       /\ (mml = Example2 /\ ParseDone') =>
              /\ Len(parser'.result) = 1
              /\ parser'.result[1].is_rest
              /\ parser'.result[1].duration = <<1, 1>>
       /\ Emits =>
              LET d        == Last(parser'.result).duration
                  division == TokenNumber(parser.default_length)
              IN IF TokenDotted
                 THEN d[1] * parser.bpm * division * 2 = d[2] * 60 * 4 * 3
                 ELSE d[1] * parser.bpm * division = d[2] * 60 * 4]_vars

\* the first text of the contract was parsed to its end
C18_Witness ==
    /\ mml = Example1 /\ ParseDone
    /\ Len(parser.result) = 1 /\ parser.result[1].duration = <<1, 2>>

\* the command letter at the parser's position and the number of its token
Command == constexpr_tolower(mml[parser.i + 1])

\* what > and < do to the octave, and the range of every octave held
OctaveStepsSaturate ==
    /\ parser'.octave \in 0..8
    /\ \A k \in DOMAIN parser'.result : parser'.result[k].octave \in 0..8
    /\ Command = ">" => parser'.octave = (IF parser.octave < 8 THEN parser.octave + 1
                                         ELSE 8)
    /\ Command = "<" => parser'.octave = (IF parser.octave > 0 THEN parser.octave - 1
                                         ELSE 0)

\* C19 as stated: the octave in force stays in 0..8: o<int> above 8 gives 8,
\* > and < saturate at 8 and 0, and every emitted note has an octave in 0..8.
C19_OctaveClamped ==
    [][/\ OctaveStepsSaturate
       /\ (Command = "o" /\ TokenNumber(0) > 8) => parser'.octave = 8]_vars

\* C19 amended: the octave in force stays in 0..8: o<int> above 8 leaves the
\* octave as it was, > and < saturate at 8 and 0, and every emitted note has
\* an octave in 0..8.
C19_OctaveInRange ==
    [][/\ OctaveStepsSaturate
       /\ (Command = "o" /\ TokenNumber(0) > 8) => parser'.octave = parser.octave]_vars

\* o9 was passed over, leaving octave 4, and > then raised it to 5
C19_Witness ==
    /\ ParseDone /\ mml = <<"o", "9", ">">>
    /\ parser.octave = 5

ToggleCase(c) ==
    IF \E k \in DOMAIN Uppers : Uppers[k] = c
    THEN Lowers[CHOOSE k \in DOMAIN Uppers : Uppers[k] = c]
    ELSE IF \E k \in DOMAIN Lowers : Lowers[k] = c
    THEN Uppers[CHOOSE k \in DOMAIN Lowers : Lowers[k] = c]
    ELSE c

\* text with a space inserted after its first k characters
WithSpace(text, k) == SubSeq(text, 1, k) \o <<" ">> \o SubSeq(text, k + 1, Len(text))

Without(text, k) == SubSeq(text, 1, k - 1) \o SubSeq(text, k + 1, Len(text))

Recased(text, k) == [text EXCEPT ![k] = ToggleCase(text[k])]

\* C20: inserting a space anywhere, removing a whitespace character or changing
\* the case of a letter leaves the parsed note sequence the same.
C20_WhitespaceAndCase ==
    ParseDone =>
        /\ \A k \in 0..Len(mml) : parse(WithSpace(mml, k)) = parser.result
        /\ \A k \in 1..Len(mml) :
              /\ constexpr_isspace(mml[k]) => parse(Without(mml, k)) = parser.result
              /\ parse(Recased(mml, k)) = parser.result


\* the pitch getFrequency() computes from: semitones above C0
Pitch(n) == 12 * n.octave + n.note

NoteLetters == {"a", "b", "c", "d", "e", "f", "g"}

\* C21: a note letter followed by + or # is emitted one semitone above the
\* natural note of the octave in force, and followed by - one semitone below
\* it, the pitch being 12 * octave + semitone of the emitted NoteData.
C21_AccidentalIsOneSemitone ==
    [][(Command \in NoteLetters /\ Emits /\ Len(Token) >= 2) =>
          LET natural == 12 * parser.octave + charToNote(Command)
              pitch   == Pitch(Last(parser'.result))
          IN /\ Token[2] \in {"+", "#"} => pitch = natural + 1
             /\ Token[2] = "-" => pitch = natural - 1]_vars

\* C22 as stated: a step of the parse emits exactly one NoteData, appended to
\* those before it, when it is at a note letter or at r, and nothing otherwise;
\* the frog song has 8 entries and the oscillator demo 16.
C22_OnePerNote ==
    [][/\ IF Command \in NoteLetters \cup {"r"}
          THEN Emits /\ SubSeq(parser'.result, 1, Len(parser.result)) = parser.result
          ELSE parser'.result = parser.result
       /\ (mml = frog_song /\ ParseDone') => Len(parser'.result) = 8
       /\ (mml = oscillator_demo /\ ParseDone') => Len(parser'.result) = 16]_vars

\* C22 amended: the same while the sequence holds fewer than
\* MAX_NOTE_SEQUENCE_SIZE entries; a note or rest met when it is full is
\* dropped, and the parse goes on.
C22_OnePerNoteUpToCapacity ==
    [][/\ IF /\ Command \in NoteLetters \cup {"r"}
             /\ Len(parser.result) < MAX_NOTE_SEQUENCE_SIZE
          THEN Emits /\ SubSeq(parser'.result, 1, Len(parser.result)) = parser.result
          ELSE parser'.result = parser.result
       /\ parser'.i > parser.i
       /\ (mml = frog_song /\ ParseDone') => Len(parser'.result) = 8
       /\ (mml = oscillator_demo /\ ParseDone') => Len(parser'.result) = 16]_vars

\* the text of one note too many was parsed to its end: every note but the
\* last was emitted
C22_Witness ==
    /\ ParseDone /\ mml = LongText
    /\ Len(parser.result) = MAX_NOTE_SEQUENCE_SIZE


----------------------------------------------------------------------------
(* Further claims about the voice, checked under VoiceSpec *)

\* C26: a voice whose audio device could not be opened at construction stays
\* silent: after any noteOn, noteOff and update calls it is not playing, its
\* gate is clear and its envelope is Idle at level 0.
C26_NoDeviceIsSilent ==
    ~synth.stream_ =>
        /\ ~synth.is_playing_ /\ ~synth.gate_
        /\ synth.envelope_.state_ = "Idle" /\ Envelope_value(synth.envelope_) = 0

\* noteOn was called on a voice without a device
C26_Witness ==
    /\ ~synth.stream_ /\ vhist.op = "noteOn" /\ vhist.arg > 0
    /\ ~synth.is_playing_


----------------------------------------------------------------------------
(* Claims about the effect chain of the voice, checked under ChainSpec *)

\* C23: when noteOn retriggers the voice, every effect of its chain is reset
\* (the input and output history of a filter zeroed, the counter of a tremolo
\* zeroed) before the first sample of the new note is produced.
C23_EffectsResetOnNoteOn ==
    [][(vhist'.op = "noteOn" /\ synth.stream_) =>
          \A k \in DOMAIN fx' : fx'[k] = Effect_reset(fx'[k])]_vars


----------------------------------------------------------------------------
(* Claims about arguments out of range, checked under ControlSpec *)

Abs(x) == IF x < 0 THEN -x ELSE x

\* the value of lo..hi nearest to v
Nearest(v, lo, hi) ==
    CHOOSE x \in {lo, hi, v} :
        /\ x >= lo /\ x <= hi
        /\ \A y \in {lo, hi, v} : (y >= lo /\ y <= hi) => Abs(x - v) <= Abs(y - v)

\* every stored parameter lies in its range
ParametersInRange ==
    /\ ctl.filter.frequency_ \in 10..(ctl.filter.sample_rate_ \div 2 - 1)
    /\ ctl.filter.q_ \in 1..10000000
    /\ ctl.filter.gain_ \in -40..40
    /\ ctl.filter.detune_ \in -1200..1200
    /\ ctl.tremolo.rate_ \in 1..200
    /\ ctl.tremolo.depth_ \in 0..VolOne
    /\ synth.master_volume_ \in 0..VolOne
    /\ ctl.mixer.master_volume_ \in 0..VolOne
    /\ \A id \in DOMAIN bgm_map_ : bgm_map_[id].master_volume_ \in 0..VolOne
    /\ mgr.master_volume_ \in 0..VolOne
    /\ \A k \in DOMAIN ctl.mixer.send_levels_ :
          \A c \in DOMAIN ctl.mixer.send_levels_[k] :
              ctl.mixer.send_levels_[k][c] \in 0..SendOne

\* the voice and channel indices of the last call exist in the mixer
ValidVoice(k) == k < Len(ctl.mixer.send_levels_)

ValidChannel(c) == c < ctl.mixer.num_output_channels_

C25_BadIndexIsNoOp ==
    [][LET op   == ctl'.op
           arg  == ctl'.arg
           same == ctl'.mixer = ctl.mixer /\ bgm_map_' = bgm_map_
       IN /\ (op \in {"setSendLevel", "getSendLevel"}
                 /\ ~(ValidVoice(arg[1]) /\ ValidChannel(arg[2]))) =>
                same /\ ctl'.ret = 0
          /\ (op = "setPan"
                 /\ ~(ValidVoice(arg[1]) /\ ctl.mixer.num_output_channels_ = 2)) => same
          /\ (op \in {"setTrackSequence", "getSynthesizer", "getSequencer"}
                 /\ arg[1] >= TrackCount) =>
                same /\ (op # "setTrackSequence" => ctl'.ret = NullPtr)]_vars

\* a pan was set for a voice that a stereo mixer of two voices has not, after
\* a sequence was given to a track the song has not
C25_Witness ==
    /\ ctl.n = 2 /\ ctl.op = "setPan" /\ ctl.arg = <<2, 0>>
    /\ ctl.mixer = addSynthesizer(addSynthesizer(NewAudioMixer(2)))
    /\ bgm_map_["a"] = NewSong(SongNotes("a"), SongLoop("a"))


----------------------------------------------------------------------------
(* Claims about the noise oscillator, checked under NoiseSpec *)

\* the noise state n generate() calls after seed
RECURSIVE KeyAfter(_, _)
KeyAfter(seed, n) == IF n = 0 THEN seed ELSE lcgNext(KeyAfter(seed, n - 1))

\* 2^31 times the distance of the float f from signed32(key) / 2^31
NoiseError(f, key) ==
    Abs((f[1] - (IF key[1] >= Half \div 2 THEN key[1] - Half ELSE key[1])) * Half
        + (f[2] - key[2]))

\* what holds of an oscillator that generated only noise since it was seeded:
\* its state is the seed advanced once per call by key * 1664525 + 1013904223
\* mod 2^32 (the default seed 0x12345678 gives 0x75432777 first), every value
\* is signed32 of the state / 2^31 to the precision of a float, and the phase
\* does not matter
NoiseFollowsLCG(x) ==
    /\ x.o.noise_state_ = KeyAfter(x.seed, Len(x.outs))
    /\ (x.seed = Halves(DEFAULT_NOISE_SEED) /\ Len(x.outs) = 1) =>
          x.o.noise_state_ = <<30019, 10103>>
    /\ \A j \in DOMAIN x.outs : NoiseError(x.outs[j], KeyAfter(x.seed, j)) <= Half \div 1024
    /\ x.o.wave_type_ = "Noise" =>
          \A p, q \in Phases : generate(x.o, p) = generate(x.o, q)

\* two oscillators given the same seed have generated the same values
SameSeedSameNoise ==
    (osc[1].pure /\ osc[2].pure /\ osc[1].seed = osc[2].seed) =>
        \A j \in DOMAIN osc[1].outs \cap DOMAIN osc[2].outs :
            osc[1].outs[j] = osc[2].outs[j]

\* C27 as stated: with wave type Noise each generate() advances the state by
\* the LCG and returns signed32(state) / 2^31, a value in [-1, 1) that does
\* not depend on the phase; equal seeds give equal output sequences.
C27_NoiseInHalfOpenRange ==
    /\ SameSeedSameNoise
    /\ \A k \in DOMAIN osc : osc[k].pure =>
          /\ NoiseFollowsLCG(osc[k])
          /\ \A j \in DOMAIN osc[k].outs :
                osc[k].outs[j][1] >= -(Half \div 2) /\ osc[k].outs[j][1] < Half \div 2

\* C27 amended: the same with the value in [-1, 1]: 1.0 is returned when
\* signed32(state) is within 64 of 2^31, the conversion to float rounding up.
C27_NoiseInClosedRange ==
    /\ SameSeedSameNoise
    /\ \A k \in DOMAIN osc : osc[k].pure =>
          /\ NoiseFollowsLCG(osc[k])
          /\ \A j \in DOMAIN osc[k].outs :
                /\ osc[k].outs[j][1] >= -(Half \div 2)
                /\ \/ osc[k].outs[j][1] < Half \div 2
                   \/ osc[k].outs[j] = <<Half \div 2, 0>>

\* both oscillators were given the seed before 0x7FFFFFFF and generated 1.0,
\* at different phases
C27_Witness ==
    /\ osc[1].seed = <<42741, 46880>> /\ osc[2].seed = osc[1].seed
    /\ osc[1].pure /\ osc[2].pure
    /\ Len(osc[1].outs) = 2 /\ Len(osc[2].outs) = 2
    /\ osc[1].outs[1] = <<Half \div 2, 0>>

----------------------------------------------------------------------------
(* Further claims about the song manager, checked under MgrSpec *)

\* C28: whatever the master volume, 0 included and changed during the fade or
\* not, the update() in which the fade-in of a crossfade reaches progress 1
\* leaves the new song playing if it was, current, and at the master volume;
\* the only song that update() may stop is the one of the armed fade-out.
C28_FadeInKeepsNewSong ==
    [][(/\ mhist'.op = <<"update">>
        /\ mgr.fade_in_.is_fading /\ ~mgr'.fade_in_.is_fading)
       => LET id == mgr.fade_in_.bgm_id IN
          /\ MTS_isPlaying(bgm_map_[id]) => MTS_isPlaying(bgm_map_'[id])
          /\ mgr'.current_bgm_id_ = id
          /\ bgm_map_'[id].master_volume_ = mgr'.master_volume_
          /\ \A s \in Ids :
                (MTS_isPlaying(bgm_map_[s]) /\ ~MTS_isPlaying(bgm_map_'[s]))
                    => (mgr.fade_out_.is_fading /\ mgr.fade_out_.bgm = s)]_vars

\* C29: every registered song with a playing track is the current song or
\* the song of the armed fade-out, and right after stop() no registered song
\* is playing.
C29_PlayingSongsAreTracked ==
    /\ \A s \in Ids :
          Playing(s) => \/ mgr.current_bgm_id_ = s
                        \/ mgr.fade_out_.is_fading /\ mgr.fade_out_.bgm = s
    /\ mhist.op = <<"stop">> => \A s \in Ids : ~Playing(s)

\* C30: when the master volume was not changed since the update() before, an
\* update() does not raise the volume of the song that is fading out and does
\* not lower the volume of the song that is fading in; this also when the
\* song fading out is one that a new crossfade caught half faded in.
C30_FadesAreMonotone ==
    [][(mhist'.op = <<"update">> /\ ~mhist.mv)
       => \A s \in Ids :
             /\ (mgr.fade_out_.is_fading /\ mgr.fade_out_.bgm = s)
                   => bgm_map_'[s].master_volume_ <= bgm_map_[s].master_volume_
             /\ (mgr.fade_in_.is_fading /\ mgr.fade_in_.bgm = s)
                   => bgm_map_'[s].master_volume_ >= bgm_map_[s].master_volume_]_vars

----------------------------------------------------------------------------
(* Further claims about the sequencer, checked under Spec *)

\* C31: between operations the scheduling timer of a Sequencer is armed
\* exactly when isPlaying() is true, and never more than one timer is armed:
\* play() arms one, stop() disarms it, and a sequence that ends by itself
\* leaves no timer armed.
C31_TimerArmedIffPlaying ==
    /\ trk.sdl_timers <= 1
    /\ (trk.sdl_timers > 0) <=> trk.is_playing_
    /\ (trk.timer_id_ # 0) <=> trk.is_playing_

\* C32: whenever isPlaying() is true the sequence is not empty and
\* current_note_index_ is an index into it (so that every timer callback can
\* advance the playback), also after clear() or setSequence() during
\* playback.
C32_PlayingHasValidIndex ==
    trk.is_playing_ =>
        /\ trk.sequence_ # <<>>
        /\ trk.current_note_index_ < Len(trk.sequence_)

----------------------------------------------------------------------------
(* Claims about the envelope's states, checked under VoiceSpec *)

\* C33: the envelope changes state only by noteOn to Attack, by process()
\* from Attack to Decay with the level at 1, from Decay to Sustain with the
\* level at the sustain level and from Release to Idle with the level at 0,
\* and by noteOff (called directly or by update() at the end of the note)
\* from Attack, Decay or Sustain to Release; noteOff leaves an Idle envelope
\* as it is and process() leaves Sustain and Idle.
C33_EnvelopeEdges ==
    [][LET e == synth.envelope_
           f == synth'.envelope_
       IN /\ e.state_ # f.state_ =>
               \/ vhist'.op = "noteOn" /\ f.state_ = "Attack"
               \/ /\ vhist'.op = "process"
                  /\ \/ /\ e.state_ = "Attack" /\ f.state_ = "Decay"
                        /\ f.current_level_ = LevelOne
                     \/ /\ e.state_ = "Decay" /\ f.state_ = "Sustain"
                        /\ f.current_level_ = e.sustain_level_
                     \/ /\ e.state_ = "Release" /\ f.state_ = "Idle"
                        /\ f.current_level_ = 0
               \/ /\ vhist'.op \in {"noteOff", "update"}
                  /\ e.state_ \in {"Attack", "Decay", "Sustain"}
                  /\ f.state_ = "Release"
          /\ e.state_ = "Idle" => Envelope_noteOff(e) = e
          /\ e.state_ \in {"Sustain", "Idle"} =>
                Envelope_process(e).state_ = e.state_]_vars

\* process() has taken the envelope down the decay ramp into Sustain
C33_Witness ==
    /\ vhist.op = "process" /\ vhist.was = "Decay"
    /\ synth.envelope_.state_ = "Sustain"
    /\ synth.envelope_.decay_time_ > 0
    /\ synth.envelope_.current_level_ = synth.envelope_.sustain_level_

\* C34: when noteOff (called directly or by update() at the end of the note)
\* has taken the envelope from Attack, Decay or Sustain to Release, the next
\* process() returns what one Release step makes of the level that the last
\* process() before the noteOff returned, whatever was done to the sustain
\* level while the note was sounding.
C34_ReleaseStartsFromOutput ==
    [][(/\ vhist'.op = "process"
        /\ vhist.op \in {"noteOff", "update"}
        /\ vhist.was \in {"Attack", "Decay", "Sustain"}
        /\ synth.envelope_.state_ = "Release")
       => synth'.envelope_.current_level_ =
             Envelope_process([synth.envelope_ EXCEPT
                                  !.release_level_ = vhist.out]).current_level_]_vars

----------------------------------------------------------------------------
(* Claims about play() and update() of the sequencer, checked under Spec *)

----------------------------------------------------------------------------
(* Further claims about the parser, checked under ParseSpec *)

\* C36: every NoteData that parse has emitted has a finite duration greater
\* than 0 (a fraction with positive numerator and denominator), whatever the
\* text, explicit lengths of 0 and tempo tokens included.
C36_DurationsArePositive ==
    \A k \in 1..Len(parser.result) :
        /\ parser.result[k].duration[2] > 0
        /\ parser.result[k].duration[1] > 0

----------------------------------------------------------------------------
(* Claims about the FixedNoteSequence, checked under BufferSpec *)

\* C37: however a FixedNoteSequence was built (default construction,
\* construction from a span of any length, push_back, clear), size() is at
\* most capacity() and end() lies within the backing array.
C37_SizeWithinCapacity ==
    /\ FixedNoteSequence_size(fns.q) <= FixedNoteSequence_capacity(fns.q)
    /\ FixedNoteSequence_end(fns.q) \in 0..MAX_NOTE_SEQUENCE_SIZE

----------------------------------------------------------------------------
(* Further claims about the filter, checked under ControlSpec *)

\* C38: after any setFrequency and setDetune calls the frequency from which
\* the coefficients are derived, frequency * 2^(detune / 1200), lies between
\* 10 Hz and sample_rate / 2 - 1.
C38_CutoffWithinNyquist ==
    /\ getDetunedFrequency(ctl.filter) >= 10
    /\ getDetunedFrequency(ctl.filter) <= ctl.filter.sample_rate_ \div 2 - 1

====
